---- MODULE Spec2Model ----
(***************************************************************************)
(* A model of the glTF reader, core/frontend/src/tile/GltfReader.ts:       *)
(* the node traversal generator (traverseNodes), and, further down, the    *)
(* graphics and geometry traversals with their transform stack and the     *)
(* asynchronous read() with its resource resolution.                       *)
(***************************************************************************)
EXTENDS Integers, Sequences, FiniteSets, TLC

\* ------------------------------------------------------------------------
\* Bounds of the model

\* The node ids a document may use (GltfId); an id need not name a node.
NodeIds == {0, 1, 2}

\* The most child references a document's nodes hold together.
MaxEdges == 3

\* The most entries of the scene's root list.
MaxRoots == 2

\* The most child references of a document given to the graphics and geometry traversals.
MaxAsmEdges == 2

\* The most primitives of a mesh.
MaxPrims == 2

\* The call depth at which the engine gives up a recursion (RangeError).
MaxCallDepth == 4

\* ------------------------------------------------------------------------
\* The document

VARIABLES
  nodes,        \* GltfReader._nodes: id -> [children, meshes], on the ids that name a node
  sceneNodes,   \* GltfReader._sceneNodes: the root list
  tstack,       \* traverseNodes: the generator frames, innermost last: [ids, i]
  traversed,    \* traverseNodes: the Set<GltfId> shared by all frames
  yielded,      \* the ids of the nodes the generator has yielded, in order
  tstatus,      \* "idle" | "running" | "completed" | "threw"
  tsteps,       \* the loop iterations and returns the generator has made
  meshes,       \* GltfReader._meshes: id -> the primitives of the mesh
  mode,         \* "graphics" (readGltfAndCreateGraphics) | "geometry" (readGltfAndCreateGeometry)
  xstack,       \* TransformStack._stack
  cstack,       \* the calls of readNodeAndCreateGraphics/Polyfaces in progress, innermost last
  rootIdx,      \* the position of the loop over _sceneNodes
  astatus,      \* "idle" | "running" | "done" | "threw"
  readStatus,   \* the local readStatus of readGltfAndCreateGraphics
  outCount,     \* renderGraphicList.length / polyfaces.length
  primReads,    \* the calls of readMeshPrimitive made
  lastCall,     \* the last call that returned: [node, entry, exit] stack depths
  assertOk,     \* no assert(transformStack.isEmpty) has failed
  rendered,     \* a call of the render system (this._system) was made
  madeGraphic,  \* graphicFromMeshData gave a graphic for a primitive of this read
  buffers,      \* GltfReader._buffers: id -> "embedded" | "url" | "badurl" | "nouri"
  images,       \* GltfReader._images: id -> [kind: "url" | "view" | "none", buffer]
  aborted,      \* what the shouldAbort predicate returns now (_isCanceled)
  abortSeen,    \* a check of _isCanceled during resource resolution has come out true
  phase,        \* where read() is
  btask,        \* id -> where the buffer's resolveBuffer call is
  itask,        \* id -> where the image's resolveImage call is
  resolvedBuffer, \* the buffers that have a resolvedBuffer
  resolvedImage,  \* the images that have a resolvedImage
  dracoList,    \* resolveResources: the local dracoMeshes, a list of descriptors
  dtask,        \* where each decodeDracoMesh call of the list is
  parses,       \* the descriptors loader.parse was invoked for, in order
  dracoMeshes,  \* GltfReader._dracoMeshes: the descriptors with a decoded mesh
  result,       \* what read() returned: [status, graphic]
  arg,          \* the arguments and the reader state of the one call under study
  ret           \* what that call returned or left behind; "pending" before it

docVars == <<nodes, sceneNodes, meshes, buffers, images>>
asmVars == <<mode, xstack, cstack, rootIdx, astatus, readStatus, outCount, primReads,
             lastCall, assertOk, rendered, madeGraphic>>
readVars == <<aborted, abortSeen, phase, btask, itask, resolvedBuffer, resolvedImage,
              dracoList, dtask, parses, dracoMeshes, result>>
travVars == <<tstack, traversed, yielded, tstatus, tsteps>>
unitVars == <<arg, ret>>

SeqsUpTo(S, n) == UNION {[1..k -> S] : k \in 0..n}

RECURSIVE SumOver(_, _)
SumOver(f, S) ==
  IF S = {} THEN 0
  ELSE LET x == CHOOSE y \in S : TRUE IN f[x] + SumOver(f, S \ {x})

Occ(s, x) == Cardinality({k \in DOMAIN s : s[k] = x})

Kids(n) == nodes[n].children

\* The children a list of (parent, child) references gives node n, in the list's order.
RECURSIVE ChildrenOf(_, _)
ChildrenOf(E, n) ==
  IF E = <<>> THEN <<>>
  ELSE (IF Head(E)[1] = n THEN <<Head(E)[2]>> ELSE <<>>) \o ChildrenOf(Tail(E), n)

EdgeCount(nd) == SumOver([n \in DOMAIN nd |-> Len(nd[n].children)], DOMAIN nd)

\* ------------------------------------------------------------------------
\* function * traverseNodes(ids, nodes, traversed)

\* GltfReader.traverseNodes / traverseScene: a fresh Set and one frame over the ids.
StartTraverse(ids) ==
  /\ tstack' = <<[ids |-> ids, i |-> 1]>>
  /\ traversed' = {}
  /\ yielded' = <<>>
  /\ tstatus' = "running"
  /\ tsteps' = 0

Top == tstack[Len(tstack)]
TopId == Top.ids[Top.i]
AtId == tstatus = "running" /\ tstack # <<>> /\ Top.i <= Len(Top.ids)
Advance(st) == [st EXCEPT ![Len(st)].i = @ + 1]

\* A traversal that never reports a revisit.
AlreadyTraversed_never(id) == FALSE

\* A traversal whose visited set holds only the nodes of the path being descended.
AlreadyTraversed_onPath(id) ==
  id \in {tstack[k].ids[tstack[k].i - 1] : k \in 1..(Len(tstack) - 1)}

\* if (traversed.has(id)): the Set is the one shared by every frame.
AlreadyTraversed(id) == id \in traversed

\* if (traversed.has(id)) throw new Error("Cycle detected ...")
traverseNodes_Throw ==
  /\ AtId
  /\ AlreadyTraversed(TopId)
  /\ tstatus' = "threw"
  /\ tstack' = <<>>
  /\ tsteps' = tsteps + 1
  /\ UNCHANGED <<traversed, yielded>>

\* const node = nodes[id]; if (!node) continue;
traverseNodes_Skip ==
  /\ AtId
  /\ ~AlreadyTraversed(TopId)
  /\ TopId \notin DOMAIN nodes
  /\ tstack' = Advance(tstack)
  /\ tsteps' = tsteps + 1
  /\ UNCHANGED <<traversed, yielded, tstatus>>

\* traversed.add(id); yield node; then the children's generator runs.
traverseNodes_Yield ==
  /\ AtId
  /\ ~AlreadyTraversed(TopId)
  /\ TopId \in DOMAIN nodes
  /\ traversed' = traversed \cup {TopId}
  /\ yielded' = Append(yielded, TopId)
  /\ tstack' = Append(Advance(tstack), [ids |-> Kids(TopId), i |-> 1])
  /\ tsteps' = tsteps + 1
  /\ UNCHANGED tstatus

\* The for loop of a frame is exhausted: the generator returns to its caller.
traverseNodes_Return ==
  /\ tstatus = "running"
  /\ tstack # <<>>
  /\ Top.i > Len(Top.ids)
  /\ tstack' = SubSeq(tstack, 1, Len(tstack) - 1)
  /\ tstatus' = IF Len(tstack) = 1 THEN "completed" ELSE "running"
  /\ tsteps' = tsteps + 1
  /\ UNCHANGED <<traversed, yielded>>

traverseNodes ==
  \/ traverseNodes_Throw
  \/ traverseNodes_Skip
  \/ traverseNodes_Yield
  \/ traverseNodes_Return

\* ------------------------------------------------------------------------
\* class TransformStack

\* A transform is the product of node transforms, written as the list of the nodes
\* whose local transforms were multiplied, outermost first; def is FALSE for undefined.
NoTransform == [def |-> FALSE, path |-> <<>>]
TileTransformId == -1

\* The local transform of a node: its matrix, or its rotation/scale/translation.
NodeTransform(n) ==
  IF nodes[n].xf THEN [def |-> TRUE, path |-> <<n>>] ELSE NoTransform

\* A product taken in the opposite order: the second operand first.
Multiply_reversed(a, b) == [def |-> TRUE, path |-> b.path \o a.path]

\* Transform.multiplyTransformTransform
Multiply(a, b) == [def |-> TRUE, path |-> a.path \o b.path]

\* TransformStack.transform
StackTop(st) == IF Len(st) > 0 THEN st[Len(st)] ELSE NoTransform

\* TransformStack.push(node)
Push(st, n) ==
  LET top == StackTop(st)
      nt == NodeTransform(n)
  IN IF ~top.def THEN Append(st, nt)
     ELSE Append(st, IF nt.def THEN Multiply(top, nt) ELSE top)

\* TransformStack.pop()
Pop(st) == SubSeq(st, 1, Len(st) - 1)

\* ------------------------------------------------------------------------
\* readMeshPrimitives / readMeshPrimitive / graphicFromMeshData

\* What reading one primitive can come to: readMeshPrimitive returns undefined
\* ("dropped"), returns mesh data of which no graphic or polyface is made
\* ("nographic"), returns mesh data that becomes one ("graphic"), or raises
\* (a primitive without attributes: primitive.attributes.NORMAL).
PrimOutcomes == {"dropped", "nographic", "graphic", "throws"}

\* getGltfNodeMeshIds(node)
getGltfNodeMeshIds(n) == nodes[n].meshes

RECURSIVE Concat(_)
Concat(ss) == IF ss = <<>> THEN <<>> ELSE Head(ss) \o Concat(Tail(ss))

\* The primitives readMeshPrimitives(node) reads: those of every mesh of the node.
NodePrimitives(n) ==
  Concat([k \in DOMAIN getGltfNodeMeshIds(n) |->
            IF getGltfNodeMeshIds(n)[k] \in DOMAIN meshes
              THEN meshes[getGltfNodeMeshIds(n)[k]] ELSE <<>>])

FirstThrow(outs) ==
  IF \E k \in DOMAIN outs : outs[k] = "throws"
    THEN CHOOSE k \in DOMAIN outs : outs[k] = "throws" /\ \A j \in 1..(k - 1) : outs[j] # "throws"
    ELSE 0

HasGraphic(outs) == \E k \in DOMAIN outs : outs[k] = "graphic"

\* graphicFromMeshData is called for every mesh readMeshPrimitives returned.
HasMeshData(outs) == \E k \in DOMAIN outs : outs[k] \in {"graphic", "nographic"}

\* ------------------------------------------------------------------------
\* readGltfAndCreateGraphics, readGltfAndCreateGeometry and their node recursions

AsmIdle ==
  /\ mode = "graphics"
  /\ xstack = <<>>
  /\ cstack = <<>>
  /\ rootIdx = 1
  /\ astatus = "idle"
  /\ readStatus = "InvalidTileData"
  /\ outCount = 0
  /\ primReads = 0
  /\ lastCall = [node |-> -1, entry |-> 0, exit |-> 0]
  /\ assertOk = TRUE
  /\ rendered = FALSE
  /\ madeGraphic = FALSE

Frame == cstack[Len(cstack)]
InFrame(pc) == astatus = "running" /\ cstack # <<>> /\ Frame.pc = pc
SetFrame(f) == [cstack EXCEPT ![Len(cstack)] = f]

\* The call of readNodeAndCreateGraphics / readNodeAndCreatePolyfaces on node n.
Call(st, n) == Append(st, [node |-> n, pc |-> "enter", k |-> 1, entry |-> Len(xstack)])

\* for (const nodeKey of this._sceneNodes): assert(transformStack.isEmpty); the node's call.
readGltf_Root ==
  /\ astatus = "running"
  /\ cstack = <<>>
  /\ rootIdx <= Len(sceneNodes)
  /\ assertOk' = (assertOk /\ (mode = "graphics" => xstack = <<>>))
  /\ IF sceneNodes[rootIdx] \in DOMAIN nodes
       THEN cstack' = Call(cstack, sceneNodes[rootIdx]) /\ UNCHANGED rootIdx
       ELSE rootIdx' = rootIdx + 1 /\ UNCHANGED cstack
  /\ UNCHANGED <<mode, xstack, astatus, readStatus, outCount, primReads, lastCall, rendered, madeGraphic>>

\* A reader that never finds its list of graphics empty.
EmptyList_never == FALSE

\* 0 === renderGraphicList.length
EmptyList == outCount = 0

\* After the loop: InvalidTileData when nothing was pushed, else the last readStatus.
readGltf_Finish ==
  /\ astatus = "running"
  /\ cstack = <<>>
  /\ rootIdx > Len(sceneNodes)
  /\ astatus' = "done"
  /\ readStatus' = IF mode = "graphics" /\ EmptyList THEN "InvalidTileData" ELSE readStatus
  /\ UNCHANGED <<mode, xstack, cstack, rootIdx, outCount, primReads, lastCall, assertOk,
                 rendered, madeGraphic>>

\* transformStack.push(node)
readNode_Push ==
  /\ InFrame("enter")
  /\ xstack' = Push(xstack, Frame.node)
  /\ cstack' = SetFrame([Frame EXCEPT !.pc = "meshes", !.k = 1])
  /\ UNCHANGED <<mode, rootIdx, astatus, readStatus, outCount, primReads, lastCall, assertOk,
                 rendered, madeGraphic>>

\* The primitives of the node are read, with any outcome each.
ReadPrimitives(outs, pushes) ==
  \/ /\ FirstThrow(outs) > 0
     /\ primReads' = primReads + FirstThrow(outs)
     /\ astatus' = "threw"
     /\ cstack' = <<>>
     /\ UNCHANGED <<outCount, rendered, madeGraphic>>
  \/ /\ FirstThrow(outs) = 0
     /\ rendered' = (rendered \/ (mode = "graphics" /\ HasMeshData(outs)))
     /\ madeGraphic' = (madeGraphic \/ (mode = "graphics" /\ HasGraphic(outs)))
     /\ primReads' = primReads + Len(outs)
     /\ outCount' = outCount + pushes
     /\ UNCHANGED astatus

\* Graphics: one turn of the loop over the node's mesh ids. A mesh with primitives
\* has readMeshPrimitives(node) read the node's primitives and one graphic pushed
\* when any of them made one.
readNode_MeshGraphics ==
  /\ InFrame("meshes")
  /\ mode = "graphics"
  /\ Frame.k <= Len(getGltfNodeMeshIds(Frame.node))
  /\ IF getGltfNodeMeshIds(Frame.node)[Frame.k] \in DOMAIN meshes
       THEN \E outs \in [DOMAIN NodePrimitives(Frame.node) -> PrimOutcomes] :
              /\ ReadPrimitives(outs,
                   IF HasGraphic(outs) THEN 1 ELSE 0)
              /\ FirstThrow(outs) = 0 => cstack' = SetFrame([Frame EXCEPT !.k = @ + 1])
       ELSE /\ cstack' = SetFrame([Frame EXCEPT !.k = @ + 1])
            /\ UNCHANGED <<astatus, outCount, primReads, rendered, madeGraphic>>
  /\ UNCHANGED <<mode, xstack, rootIdx, readStatus, lastCall, assertOk>>

\* Graphics: the loop over the mesh ids is over.
readNode_MeshesDone ==
  /\ InFrame("meshes")
  /\ mode = "graphics"
  /\ Frame.k > Len(getGltfNodeMeshIds(Frame.node))
  /\ cstack' = SetFrame([Frame EXCEPT !.pc = "children", !.k = 1])
  /\ UNCHANGED <<mode, xstack, rootIdx, astatus, readStatus, outCount, primReads, lastCall,
                 assertOk, rendered, madeGraphic>>

\* Geometry: readMeshPrimitives(node) once, and a polyface of each mesh that gives one.
readNode_MeshPolyfaces ==
  /\ InFrame("meshes")
  /\ mode = "geometry"
  /\ \E outs \in [DOMAIN NodePrimitives(Frame.node) -> PrimOutcomes] :
       /\ ReadPrimitives(outs,
            Cardinality({j \in DOMAIN outs : outs[j] = "graphic"}))
       /\ FirstThrow(outs) = 0 => cstack' = SetFrame([Frame EXCEPT !.pc = "children", !.k = 1])
  /\ UNCHANGED <<mode, xstack, rootIdx, readStatus, lastCall, assertOk>>

\* for (const childId of node.children): a child that exists is recursed into; the
\* recursion of a cyclic document ends when the engine's stack is exhausted.
readNode_Child ==
  /\ InFrame("children")
  /\ Frame.k <= Len(Kids(Frame.node))
  /\ LET child == Kids(Frame.node)[Frame.k]
         next == SetFrame([Frame EXCEPT !.k = @ + 1])
     IN IF child \notin DOMAIN nodes
          THEN cstack' = next /\ UNCHANGED astatus
        ELSE IF Len(cstack) >= MaxCallDepth
          THEN cstack' = <<>> /\ astatus' = "threw"
        ELSE cstack' = Call(next, child) /\ UNCHANGED astatus
  /\ UNCHANGED <<mode, xstack, rootIdx, readStatus, outCount, primReads, lastCall, assertOk,
                 rendered, madeGraphic>>

\* Whether the node's call pops the transform stack before it returns.
PopsOnReturn_never == FALSE

PopsOnReturn == mode = "graphics"

\* The end of the node's call: transformStack.pop() (the graphics traversal), return.
readNode_Return ==
  /\ InFrame("children")
  /\ Frame.k > Len(Kids(Frame.node))
  /\ xstack' = IF PopsOnReturn THEN Pop(xstack) ELSE xstack
  /\ lastCall' = [node |-> Frame.node, entry |-> Frame.entry, exit |-> Len(xstack')]
  /\ cstack' = SubSeq(cstack, 1, Len(cstack) - 1)
  /\ IF Len(cstack) = 1
       THEN /\ rootIdx' = rootIdx + 1
            /\ readStatus' = IF mode = "graphics" THEN "Success" ELSE readStatus
       ELSE UNCHANGED <<rootIdx, readStatus>>
  /\ UNCHANGED <<mode, astatus, outCount, primReads, assertOk, rendered, madeGraphic>>

readNode ==
  \/ readGltf_Root
  \/ readGltf_Finish
  \/ readNode_Push
  \/ readNode_MeshGraphics
  \/ readNode_MeshesDone
  \/ readNode_MeshPolyfaces
  \/ readNode_Child
  \/ readNode_Return

\* ------------------------------------------------------------------------
\* read(): not started

NoResult == [status |-> "none", graphic |-> FALSE]

ReadIdle ==
  /\ aborted = FALSE
  /\ abortSeen = FALSE
  /\ phase = "idle"
  /\ btask = <<>>
  /\ itask = <<>>
  /\ resolvedBuffer = {}
  /\ resolvedImage = {}
  /\ dracoList = <<>>
  /\ dtask = <<>>
  /\ parses = <<>>
  /\ dracoMeshes = {}
  /\ result = NoResult

\* No single call is under study.
UnitIdle ==
  /\ arg = <<>>
  /\ ret = <<>>

\* ------------------------------------------------------------------------
\* The traversal of any document: traverseScene() consumed to its end

\* The node dictionaries on ids of NodeIds with at most maxEdges child references,
\* each built from a list of (parent, child) references.
Graphs(maxEdges) ==
  {[n \in S |-> [children |-> ChildrenOf(E, n)]] :
     S \in SUBSET NodeIds, E \in SeqsUpTo(NodeIds \X NodeIds, maxEdges)}

Documents == Graphs(MaxEdges)

TraverseInit ==
  /\ nodes \in Documents
  /\ sceneNodes \in SeqsUpTo(NodeIds, MaxRoots)
  /\ tstack = <<[ids |-> sceneNodes, i |-> 1]>>
  /\ traversed = {}
  /\ yielded = <<>>
  /\ tstatus = "running"
  /\ tsteps = 0
  /\ meshes = <<>>
  /\ buffers = <<>>
  /\ images = <<>>
  /\ AsmIdle
  /\ ReadIdle
  /\ UnitIdle

TraverseNext ==
  \/ traverseNodes_Throw /\ UNCHANGED <<unitVars, docVars, asmVars, readVars>>
  \/ traverseNodes_Skip /\ UNCHANGED <<unitVars, docVars, asmVars, readVars>>
  \/ traverseNodes_Yield /\ UNCHANGED <<unitVars, docVars, asmVars, readVars>>
  \/ traverseNodes_Return /\ UNCHANGED <<unitVars, docVars, asmVars, readVars>>

vars == <<docVars, travVars, asmVars, readVars, unitVars>>

SpecTraverse == TraverseInit /\ [][TraverseNext]_vars

\* ------------------------------------------------------------------------
\* The graphics and the geometry traversal of any document

TravIdle ==
  /\ tstack = <<>>
  /\ traversed = {}
  /\ yielded = <<>>
  /\ tstatus = "idle"
  /\ tsteps = 0

Primitive == [draco : {-1}]

AsmGraphs == Graphs(MaxAsmEdges)

\* Every node of these documents has a transform of its own, and the nodes with an
\* even id carry mesh 0.
AsmDocuments ==
  {[n \in DOMAIN nd |->
      [children |-> nd[n].children,
       meshes |-> IF n % 2 = 0 THEN <<0>> ELSE <<>>,
       xf |-> TRUE]] : nd \in AsmGraphs}

\* readGltfAndCreateGraphics starts with an empty stack; readGltfAndCreateGeometry
\* with the tile transform on it, when there is one.
AssembleInit ==
  /\ nodes \in AsmDocuments
  /\ sceneNodes \in SeqsUpTo(NodeIds, MaxRoots)
  /\ meshes \in {[m \in {0} |-> ps] : ps \in UNION {[1..k -> Primitive] : k \in 1..MaxPrims}}
  /\ buffers = <<>>
  /\ images = <<>>
  /\ TravIdle
  /\ mode \in {"graphics", "geometry"}
  /\ xstack \in IF mode = "graphics" THEN {<<>>}
                ELSE {<<>>, <<[def |-> TRUE, path |-> <<TileTransformId>>]>>}
  /\ cstack = <<>>
  /\ rootIdx = 1
  /\ astatus = "running"
  /\ readStatus = "InvalidTileData"
  /\ outCount = 0
  /\ primReads = 0
  /\ lastCall = [node |-> -1, entry |-> 0, exit |-> 0]
  /\ assertOk = TRUE
  /\ rendered = FALSE
  /\ madeGraphic = FALSE
  /\ ReadIdle
  /\ UnitIdle

AssembleNext ==
  \/ readGltf_Root /\ UNCHANGED <<unitVars, docVars, travVars, readVars>>
  \/ readGltf_Finish /\ UNCHANGED <<unitVars, docVars, travVars, readVars>>
  \/ readNode_Push /\ UNCHANGED <<unitVars, docVars, travVars, readVars>>
  \/ readNode_MeshGraphics /\ UNCHANGED <<unitVars, docVars, travVars, readVars>>
  \/ readNode_MeshesDone /\ UNCHANGED <<unitVars, docVars, travVars, readVars>>
  \/ readNode_MeshPolyfaces /\ UNCHANGED <<unitVars, docVars, travVars, readVars>>
  \/ readNode_Child /\ UNCHANGED <<unitVars, docVars, travVars, readVars>>
  \/ readNode_Return /\ UNCHANGED <<unitVars, docVars, travVars, readVars>>

SpecAssemble == AssembleInit /\ [][AssembleNext]_vars

\* ------------------------------------------------------------------------
\* GltfGraphicsReader.read(): resolveResources(), then readGltfAndCreateGraphics()

ReadNodeIds == {0, 1}
BufIds == {0, 1}
ImgIds == {0}
MaxReadEdges == 1
MaxReadPrims == 2

\* A call that is over: it returned without work ("skipped"), stored its result,
\* swallowed a failure ("failed"), returned upon cancellation, or ended with nothing
\* to store ("done"). A call that is not over is at one of its awaits.
Settled == {"skipped", "stored", "failed", "canceled", "done"}
AllSettled(t) == \A k \in DOMAIN t : t[k] \in Settled
AnyRejected(t) == \E k \in DOMAIN t : t[k] = "rejected"
InFlight(t) == {k \in DOMAIN t : t[k] \notin Settled \cup {"none", "rejected"}}

\* An await that does not wait for the promises it is given.
PromiseAll_first(t) == TRUE

\* await Promise.all(promises): over when every promise is fulfilled, or as soon as
\* one is rejected.
PromiseAll(t) == AllSettled(t) \/ AnyRejected(t)

\* The phases in which read() is suspended at an await, or over: the callbacks of
\* the network and of the decoder run only then.
AwaitPhases == {"awaitBuffers", "awaitImages", "import", "awaitDecodes", "done", "rejected"}

\* The shouldAbort predicate starts to return true; it is taken never to return
\* false again.
Abort ==
  /\ phase \in {"start", "awaitBuffers", "awaitImages", "import", "awaitDecodes"}
  /\ ~aborted
  /\ aborted' = TRUE
  /\ UNCHANGED <<abortSeen, phase, btask, itask, resolvedBuffer, resolvedImage, dracoList,
                 dtask, parses, dracoMeshes, result>>

\* A failure that leaves the call, where the code catches it.
OnFetchError_uncaught == "rejected"

\* resolveBuffer: catch (_) { }
OnFetchError == "failed"

\* resolveBuffer up to its first await: a resolved buffer is not passed to it, one
\* without uri returns, one whose uri gives no URL goes on to `await undefined`
\* unless the check of _isCanceled before it returns, any other one awaits fetch(url).
BufferStart(b) ==
  IF b \in resolvedBuffer \/ buffers[b] = "nouri" THEN "skipped"
  ELSE IF buffers[b] = "badurl" THEN (IF aborted THEN "canceled" ELSE "tick")
  ELSE "fetch"

\* _resolveResources: for (const buffer of ...) promises.push(this.resolveBuffer(buffer))
read_Start ==
  /\ phase = "start"
  /\ btask' = [b \in DOMAIN buffers |-> BufferStart(b)]
  /\ abortSeen' = (abortSeen \/ \E b \in DOMAIN buffers : BufferStart(b) = "canceled")
  /\ phase' = "awaitBuffers"
  /\ UNCHANGED <<aborted, itask, resolvedBuffer, resolvedImage, dracoList, dtask, parses,
                 dracoMeshes, result>>

\* resolveBuffer: await fetch(url) is over; if (this._isCanceled) return;
resolveBuffer_Fetched(b) ==
  /\ phase \in AwaitPhases
  /\ btask[b] = "fetch"
  /\ \E ok \in BOOLEAN :
       /\ btask' = [btask EXCEPT ![b] = IF ~ok THEN OnFetchError
                                        ELSE IF aborted THEN "canceled" ELSE "body"]
       /\ abortSeen' = (abortSeen \/ (ok /\ aborted))
  /\ UNCHANGED <<aborted, phase, itask, resolvedBuffer, resolvedImage, dracoList, dtask,
                 parses, dracoMeshes, result>>

\* resolveBuffer: await response?.arrayBuffer() is over; if (this._isCanceled) return;
\* if (data) buffer.resolvedBuffer = new Uint8Array(data);
resolveBuffer_Body(b) ==
  /\ phase \in AwaitPhases
  /\ btask[b] \in {"body", "tick"}
  /\ \E ok \in BOOLEAN :
       LET next == IF btask[b] = "body" /\ ~ok THEN OnFetchError
                   ELSE IF aborted THEN "canceled"
                   ELSE IF btask[b] = "tick" THEN "failed"
                   ELSE "stored"
       IN /\ btask[b] = "tick" => ok
          /\ btask' = [btask EXCEPT ![b] = next]
          /\ abortSeen' = (abortSeen \/ next = "canceled")
          /\ resolvedBuffer' = IF next = "stored" THEN resolvedBuffer \cup {b}
                               ELSE resolvedBuffer
  /\ UNCHANGED <<aborted, phase, itask, resolvedImage, dracoList, dtask, parses,
                 dracoMeshes, result>>

\* resolveImage up to its first await: an image with a buffer view returns when the
\* view's buffer is unresolved, else awaits the decoding of the bytes; an image with
\* a url awaits tryImageElementFromUrl(url); any other image returns.
ImageStart(i) ==
  IF i \in resolvedImage THEN "skipped"
  ELSE IF images[i].kind = "view"
    THEN (IF images[i].buffer \in resolvedBuffer THEN "decode" ELSE "skipped")
  ELSE IF images[i].kind = "url" THEN "fetch"
  ELSE "skipped"

\* The rest of resolveResources after _resolveResources: traverseScene() begins.
resolve_Return ==
  /\ phase' = "scan"
  /\ StartTraverse(sceneNodes)

\* _resolveResources: await Promise.all(promises) of the buffers is over;
\* if (this._isCanceled) return; else every image's resolveImage is called.
\* A rejection is caught by the catch around both awaits.
resolve_BuffersDone ==
  /\ phase = "awaitBuffers"
  /\ PromiseAll(btask)
  /\ IF AnyRejected(btask)
       THEN resolve_Return /\ UNCHANGED <<itask, abortSeen>>
     ELSE IF aborted
       THEN resolve_Return /\ abortSeen' = TRUE /\ UNCHANGED itask
     ELSE /\ itask' = [i \in DOMAIN images |-> ImageStart(i)]
          /\ phase' = "awaitImages"
          /\ UNCHANGED <<abortSeen, travVars>>
  /\ UNCHANGED <<aborted, btask, resolvedBuffer, resolvedImage, dracoList, dtask, parses,
                 dracoMeshes, result>>

\* tryImageElementFromUrl(url): an image element, or undefined when the image
\* cannot be had; never a rejection.
tryImageElementFromUrl == {"stored", "failed"}

\* imageBitmapFromImageSource / imageElementFromImageSource inside try { } catch (_) { }
DecodeImageSource == {"stored", "failed"}

\* resolveImage: the await of the decoding or of tryImageElementFromUrl is over.
resolveImage_Done(i) ==
  /\ phase \in AwaitPhases
  /\ itask[i] \in {"decode", "fetch"}
  /\ \E out \in (IF itask[i] = "fetch" THEN tryImageElementFromUrl ELSE DecodeImageSource) :
       /\ itask' = [itask EXCEPT ![i] = out]
       /\ resolvedImage' = IF out = "stored" THEN resolvedImage \cup {i} ELSE resolvedImage
  /\ UNCHANGED <<aborted, abortSeen, phase, btask, resolvedBuffer, dracoList, dtask, parses,
                 dracoMeshes, result>>

\* _resolveResources: await Promise.all(promises) of the images is over.
resolve_ImagesDone ==
  /\ phase = "awaitImages"
  /\ PromiseAll(itask)
  /\ resolve_Return
  /\ UNCHANGED <<aborted, abortSeen, btask, itask, resolvedBuffer, resolvedImage, dracoList,
                 dtask, parses, dracoMeshes, result>>

\* The KHR_draco_mesh_compression objects of mesh m, one per primitive that has one.
MeshDescriptors(m) ==
  IF m \notin DOMAIN meshes THEN <<>>
  ELSE SelectSeq([j \in DOMAIN meshes[m] |-> [mesh |-> m, prim |-> j]],
                 LAMBDA d : meshes[m][d.prim].draco # -1)

\* What the loop over traverseScene() pushes: for every node yielded, in order, the
\* descriptors of every mesh of the node.
DracoDescriptors(ys) ==
  Concat([k \in DOMAIN ys |->
            Concat([j \in DOMAIN getGltfNodeMeshIds(ys[k]) |->
                      MeshDescriptors(getGltfNodeMeshIds(ys[k])[j])])])

\* resolveResources: the loop is over; if (dracoMeshes.length === 0) return;
\* else await import("@loaders.gl/draco").
scan_Done ==
  /\ phase = "scan"
  /\ tstatus = "completed"
  /\ dracoList' = DracoDescriptors(yielded)
  /\ phase' = IF dracoList' = <<>> THEN "assemble" ELSE "import"
  /\ UNCHANGED <<aborted, abortSeen, btask, itask, resolvedBuffer, resolvedImage, dtask,
                 parses, dracoMeshes, result>>

\* resolveResources: traverseScene() raised, outside of any try: read() is rejected.
scan_Threw ==
  /\ phase = "scan"
  /\ tstatus = "threw"
  /\ phase' = "rejected"
  /\ UNCHANGED <<aborted, abortSeen, btask, itask, resolvedBuffer, resolvedImage, dracoList,
                 dtask, parses, dracoMeshes, result>>

\* decodeDracoMesh up to its await: it returns when the buffer of the view is
\* unresolved, else it calls loader.parse.
DecodeStart(d) ==
  IF meshes[d.mesh][d.prim].draco \in resolvedBuffer THEN "parse" ELSE "skipped"

\* resolveResources: the import is over. Failed, the catch logs it; else
\* dracoMeshes.map(async (x) => this.decodeDracoMesh(x, dracoLoader)).
import_Done ==
  /\ phase = "import"
  /\ \E ok \in BOOLEAN :
       IF ok
         THEN /\ dtask' = [j \in DOMAIN dracoList |-> DecodeStart(dracoList[j])]
              /\ parses' = parses \o SelectSeq(dracoList, LAMBDA d : DecodeStart(d) = "parse")
              /\ phase' = "awaitDecodes"
         ELSE /\ phase' = "assemble"
              /\ UNCHANGED <<dtask, parses>>
  /\ UNCHANGED <<aborted, abortSeen, btask, itask, resolvedBuffer, resolvedImage, dracoList,
                 dracoMeshes, result>>

\* decodeDracoMesh: await loader.parse(buf, {}) is over, with a mesh, with nothing,
\* or with a rejection; if (mesh) this._dracoMeshes.set(ext, mesh);
decodeDracoMesh_Parsed(j) ==
  /\ phase \in AwaitPhases
  /\ dtask[j] = "parse"
  /\ \E out \in {"stored", "done", "rejected"} :
       /\ dtask' = [dtask EXCEPT ![j] = out]
       /\ dracoMeshes' = IF out = "stored" THEN dracoMeshes \cup {dracoList[j]}
                         ELSE dracoMeshes
  /\ UNCHANGED <<aborted, abortSeen, phase, btask, itask, resolvedBuffer, resolvedImage,
                 dracoList, parses, result>>

\* resolveResources: await Promise.all(...) of the decodings is over; a rejection is
\* caught and logged. resolveResources returns.
decode_Done ==
  /\ phase = "awaitDecodes"
  /\ PromiseAll(dtask)
  /\ phase' = "assemble"
  /\ UNCHANGED <<aborted, abortSeen, btask, itask, resolvedBuffer, resolvedImage, dracoList,
                 dtask, parses, dracoMeshes, result>>

\* A read that never takes itself for canceled.
CanceledAtAssembly_never == FALSE

\* readGltfAndCreateGraphics: if (this._isCanceled)
CanceledAtAssembly == aborted

\* read(): await this.resolveResources() is over and readGltfAndCreateGraphics is
\* entered: the canceled result, or the loop over the scene nodes begins.
assemble_Start ==
  /\ phase = "assemble"
  /\ IF CanceledAtAssembly
       THEN /\ result' = [status |-> "Canceled", graphic |-> FALSE]
            /\ phase' = "done"
            /\ UNCHANGED astatus
       ELSE /\ astatus' = "running"
            /\ phase' = "assembling"
            /\ UNCHANGED result
  /\ UNCHANGED <<mode, xstack, cstack, rootIdx, readStatus, outCount, primReads, lastCall,
                 assertOk, rendered, madeGraphic>>
  /\ UNCHANGED <<aborted, abortSeen, btask, itask, resolvedBuffer, resolvedImage, dracoList,
                 dtask, parses, dracoMeshes>>

\* readGltfAndCreateGraphics returns { readStatus, graphic, ... }, or what it raised
\* rejects read().
assemble_Done ==
  /\ phase = "assembling"
  /\ astatus \in {"done", "threw"}
  /\ IF astatus = "threw"
       THEN phase' = "rejected" /\ UNCHANGED result
       ELSE /\ phase' = "done"
            /\ result' = [status |-> readStatus, graphic |-> outCount > 0]
  /\ UNCHANGED <<aborted, abortSeen, btask, itask, resolvedBuffer, resolvedImage, dracoList,
                 dtask, parses, dracoMeshes>>

ReadGraphs ==
  {[n \in S |-> [children |-> ChildrenOf(E, n)]] :
     S \in {{0}, {0, 1}}, E \in SeqsUpTo(ReadNodeIds \X ReadNodeIds, MaxReadEdges)}

\* Every node of these documents carries mesh 0, so that two nodes share it.
ReadDocuments ==
  {[n \in DOMAIN nd |-> [children |-> nd[n].children, meshes |-> <<0>>, xf |-> TRUE]] :
     nd \in ReadGraphs}

\* The primitives of mesh 0: without the draco extension, or with one whose buffer
\* view is on buffer 0.
ReadPrimitive == [draco : {-1, 0}]

\* Buffer 0 is the binary chunk or an external one; buffer 1 is external, with a uri
\* that gives a URL or none, or has no uri. The image has a uri, a view on buffer 0,
\* or neither.
ReadInit ==
  /\ nodes \in ReadDocuments
  /\ sceneNodes \in {<<0>>, <<0, 1>>, <<0, 0>>}
  /\ meshes \in {[m \in {0} |-> ps] : ps \in UNION {[1..k -> ReadPrimitive] : k \in 1..MaxReadPrims}}
  /\ buffers \in {[b \in BufIds |-> IF b = 0 THEN k0 ELSE k1] :
                    k0 \in {"embedded", "url"}, k1 \in {"url", "badurl", "nouri"}}
  /\ images \in {[i \in ImgIds |-> [kind |-> k, buffer |-> 0]] : k \in {"url", "view", "none"}}
  /\ TravIdle
  /\ AsmIdle
  /\ aborted = FALSE
  /\ abortSeen = FALSE
  /\ phase = "start"
  /\ btask = [b \in BufIds |-> "none"]
  /\ itask = [i \in ImgIds |-> "none"]
  /\ resolvedBuffer = {b \in BufIds : buffers[b] = "embedded"}
  /\ resolvedImage = {}
  /\ dracoList = <<>>
  /\ dtask = <<>>
  /\ parses = <<>>
  /\ dracoMeshes = {}
  /\ result = NoResult
  /\ UnitIdle

ReadNext ==
  \/ Abort /\ UNCHANGED <<unitVars, docVars, travVars, asmVars>>
  \/ read_Start /\ UNCHANGED <<unitVars, docVars, travVars, asmVars>>
  \/ \E b \in BufIds : resolveBuffer_Fetched(b) /\ UNCHANGED <<unitVars, docVars, travVars, asmVars>>
  \/ \E b \in BufIds : resolveBuffer_Body(b) /\ UNCHANGED <<unitVars, docVars, travVars, asmVars>>
  \/ resolve_BuffersDone /\ UNCHANGED <<unitVars, docVars, asmVars>>
  \/ \E i \in ImgIds : resolveImage_Done(i) /\ UNCHANGED <<unitVars, docVars, travVars, asmVars>>
  \/ resolve_ImagesDone /\ UNCHANGED <<unitVars, docVars, asmVars>>
  \/ traverseNodes_Throw /\ UNCHANGED <<unitVars, docVars, asmVars, readVars>>
  \/ traverseNodes_Skip /\ UNCHANGED <<unitVars, docVars, asmVars, readVars>>
  \/ traverseNodes_Yield /\ UNCHANGED <<unitVars, docVars, asmVars, readVars>>
  \/ traverseNodes_Return /\ UNCHANGED <<unitVars, docVars, asmVars, readVars>>
  \/ scan_Done /\ UNCHANGED <<unitVars, docVars, travVars, asmVars>>
  \/ scan_Threw /\ UNCHANGED <<unitVars, docVars, travVars, asmVars>>
  \/ import_Done /\ UNCHANGED <<unitVars, docVars, travVars, asmVars>>
  \/ \E j \in DOMAIN dtask : decodeDracoMesh_Parsed(j) /\ UNCHANGED <<unitVars, docVars, travVars, asmVars>>
  \/ decode_Done /\ UNCHANGED <<unitVars, docVars, travVars, asmVars>>
  \/ assemble_Start /\ UNCHANGED <<unitVars, docVars, travVars>>
  \/ assemble_Done /\ UNCHANGED <<unitVars, docVars, travVars, asmVars>>
  \/ readGltf_Root /\ UNCHANGED <<unitVars, docVars, travVars, readVars>>
  \/ readGltf_Finish /\ UNCHANGED <<unitVars, docVars, travVars, readVars>>
  \/ readNode_Push /\ UNCHANGED <<unitVars, docVars, travVars, readVars>>
  \/ readNode_MeshGraphics /\ UNCHANGED <<unitVars, docVars, travVars, readVars>>
  \/ readNode_MeshesDone /\ UNCHANGED <<unitVars, docVars, travVars, readVars>>
  \/ readNode_Child /\ UNCHANGED <<unitVars, docVars, travVars, readVars>>
  \/ readNode_Return /\ UNCHANGED <<unitVars, docVars, travVars, readVars>>

SpecRead == ReadInit /\ [][ReadNext]_vars

\* ------------------------------------------------------------------------
\* Graph notions the claims are stated with

\* The number of paths with exactly k edges from an entry of the root list to node n.
RECURSIVE PathsLen(_, _)
PathsLen(n, k) ==
  IF n \notin DOMAIN nodes THEN 0
  ELSE IF k = 0 THEN Occ(sceneNodes, n)
  ELSE SumOver([p \in DOMAIN nodes |-> Occ(Kids(p), n) * PathsLen(p, k - 1)], DOMAIN nodes)

NodeCount == Cardinality(DOMAIN nodes)

\* All paths from the root list to n (finite when no cycle is reachable).
PathsTo(n) == SumOver([k \in 0..NodeCount |-> PathsLen(n, k)], 0..NodeCount)

Reachable == {n \in DOMAIN nodes : PathsTo(n) > 0}

\* A path of NodeCount edges passes NodeCount + 1 nodes, so one of them twice.
ReachableCycle == \E n \in DOMAIN nodes : PathsLen(n, NodeCount) > 0

\* n is a descendant of m: a chain of child references of existing nodes leads from m to n.
RECURSIVE DescendantsWithin(_, _)
DescendantsWithin(S, k) ==
  IF k = 0 THEN S
  ELSE LET step == S \cup {c \in DOMAIN nodes : \E p \in S : Occ(Kids(p), c) > 0}
       IN DescendantsWithin(step, k - 1)

Descendants(m) ==
  DescendantsWithin({c \in DOMAIN nodes : Occ(Kids(m), c) > 0}, NodeCount)

\* Some node is its own descendant, reachable from the roots or not.
AnyCycle == \E m \in DOMAIN nodes : m \in Descendants(m)

Finished == tstatus \in {"completed", "threw"}

\* Every list entry is handled at most once and every frame returns at most once.
StepBound == Len(sceneNodes) + EdgeCount(nodes) + NodeCount + 1

\* ------------------------------------------------------------------------
\* C1 (as stated): whenever some node of the dictionary is its own descendant,
\* the traversal raises an error and never completes normally.
C1_AnyCycleThrows == AnyCycle => tstatus # "completed"

\* C1 (amended): whenever a node that the root list reaches is its own descendant,
\* the traversal never completes normally, and it takes no more steps than the
\* document has list entries and nodes, so it ends, with the error.
C1_ReachableCycleThrows ==
  /\ tsteps <= StepBound
  /\ ReachableCycle => tstatus # "completed"

\* A mutual cycle below a root was entered and reported.
C1_Witness ==
  /\ ReachableCycle
  /\ tstatus = "threw"
  /\ Len(yielded) >= 2

C3_GraphicsStackBalanced ==
  mode = "graphics" =>
    /\ lastCall.exit = lastCall.entry
    /\ assertOk
    /\ (cstack = <<>> /\ astatus # "threw") => xstack = <<>>

\* A second scene root is being processed after a first one, with a nested call
\* returned and a graphic made.
C3_Witness ==
  /\ mode = "graphics"
  /\ rootIdx = 2
  /\ cstack # <<>>
  /\ lastCall.node # -1
  /\ outCount >= 1

\* C4: in the geometry traversal the transform stack is as deep when a call of
\* readNodeAndCreatePolyfaces returns as it was when the call was entered.
C4_GeometryStackBalanced ==
  mode = "geometry" => lastCall.exit = lastCall.entry

\* ------------------------------------------------------------------------
\* read(): cancellation, ordering and failures of resource resolution

\* The phases of read() that come after _resolveResources has returned.
PastResolution ==
  phase \in {"scan", "import", "awaitDecodes", "assemble", "assembling", "done", "rejected"}

\* C5: when _isCanceled is true as readGltfAndCreateGraphics is entered, which is
\* when resolveResources has finished, read() returns Canceled with no graphic; and
\* a read that returned Canceled has entered no node, read no primitive and called
\* the render system not once.
C5_CanceledShortCircuits ==
  /\ [](result.status = "Canceled" =>
          /\ ~result.graphic
          /\ astatus = "idle" /\ cstack = <<>> /\ xstack = <<>>
          /\ primReads = 0 /\ outCount = 0 /\ ~rendered)
  /\ [][(phase = "assemble" /\ aborted) =>
          (phase' = "done" /\ result' = [status |-> "Canceled", graphic |-> FALSE])]_vars

\* A read canceled while the decoder was at work, after its buffer was fetched.
C5_Witness ==
  /\ phase = "done" /\ result.status = "Canceled"
  /\ parses # <<>> /\ \E b \in DOMAIN btask : btask[b] = "stored"

\* C6: an image's resolveImage has begun only if every buffer's resolveBuffer is
\* over; while the buffers are awaited every resolveBuffer has begun, and while the
\* images are awaited every resolveImage has begun.
C6_BuffersBeforeImages ==
  /\ (\E i \in DOMAIN itask : itask[i] # "none") => AllSettled(btask)
  /\ phase = "awaitBuffers" => \A b \in DOMAIN btask : btask[b] # "none"
  /\ phase = "awaitImages" => \A i \in DOMAIN itask : itask[i] # "none"

\* The image is being fetched after one buffer was stored and the other failed.
C6_Witness ==
  /\ phase = "awaitImages" /\ itask[0] = "fetch"
  /\ btask[0] = "stored" /\ btask[1] = "failed"

\* C7: when readGltfAndCreateGraphics is entered no resolveBuffer, resolveImage or
\* decodeDracoMesh call of the read is still at an await.
C7_NothingInFlightAtAssembly ==
  phase \in {"assemble", "assembling"} =>
    InFlight(btask) = {} /\ InFlight(itask) = {} /\ InFlight(dtask) = {}

\* C8: a failed fetch or decoding leaves the other resources to their own outcome:
\* after resolution every call is over, a buffer call returned for cancellation only
\* if the read is canceled, what was obtained is stored, every image was given its
\* call unless cancellation was seen; read() is rejected only by what a traversal
\* raises, and InvalidTileData comes only of an assembly that made no graphic.
C8_FetchFailureIsLocal ==
  /\ PastResolution => InFlight(btask) = {} /\ InFlight(itask) = {}
  /\ (PastResolution /\ ~abortSeen) => \A i \in DOMAIN itask : itask[i] # "none"
  /\ \A b \in DOMAIN btask : btask[b] \notin {"canceled", "rejected"} \/ aborted
  /\ \A b \in DOMAIN btask : btask[b] = "stored" => b \in resolvedBuffer
  /\ \A i \in DOMAIN itask : itask[i] = "stored" => i \in resolvedImage
  /\ phase = "rejected" => (tstatus = "threw" \/ astatus = "threw")
  /\ result.status = "InvalidTileData" => (astatus = "done" /\ outCount = 0)

\* A read that ended with Success although a buffer and the image failed, the other
\* buffer having been stored.
C8_Witness ==
  /\ phase = "done" /\ result.status = "Success" /\ result.graphic
  /\ btask[0] = "stored" /\ btask[1] = "failed" /\ itask[0] = "failed"

\* C9: once a check of _isCanceled during resolution has come out true, no
\* resolveImage begins, loader.parse is not called, no buffer is stored, and the
\* result of read() is Canceled.
C9_AbandonedOnceCanceled ==
  [][abortSeen =>
       /\ \A i \in DOMAIN itask : itask[i] = "none" => itask'[i] = "none"
       /\ parses' = parses
       /\ resolvedBuffer' = resolvedBuffer
       /\ (phase' = "done" => result'.status = "Canceled")]_vars

\* C10: loader.parse is called at most once for each KHR_draco_mesh_compression
\* object of the document.
C10_ParseOncePerDescriptor ==
  \A k1, k2 \in DOMAIN parses : parses[k1] = parses[k2] => k1 = k2

\* ------------------------------------------------------------------------
\* Calls studied one at a time

\* Every part of the program other than the call under study is at rest.
ProgramIdle ==
  /\ nodes = <<>>
  /\ sceneNodes = <<>>
  /\ meshes = <<>>
  /\ buffers = <<>>
  /\ images = <<>>
  /\ TravIdle
  /\ AsmIdle
  /\ ReadIdle

programVars == <<docVars, travVars, asmVars, readVars>>

\* What a call leaves in ret: nothing yet, or undefined; any other result is a
\* record of its own kind.
Undefined == [kind |-> "undefined"]
Pending == [kind |-> "pending"]

\* ------------------------------------------------------------------------
\* GltfBufferData.create(bytes, actualType, expectedType, count)

MaxCount == 2

\* Members of GltfDataType: the four component types the reader stores, and two of
\* the others (a componentType of the document is cast to the enum unchecked).
DataTypes == {"UnsignedByte", "UnsignedShort", "UInt32", "Float", "SignedByte", "Sampler2d"}

\* GltfBufferData.createDataBuffer: the typed array made over the bytes.
createDataBuffer(actualType) ==
  CASE actualType = "UnsignedByte" -> "Uint8Array"
    [] actualType = "UnsignedShort" -> "Uint16Array"
    [] actualType = "UInt32" -> "Uint32Array"
    [] actualType = "Float" -> "Float32Array"
    [] OTHER -> "undefined"

\* The switch over expectedType when it differs from actualType: TRUE where it
\* returns undefined. An expectedType that no case names leaves the switch.
CreateRefuses(actualType, expectedType) ==
  /\ expectedType # actualType
  /\ CASE expectedType \in {"Float", "UnsignedByte"} -> TRUE
       [] expectedType = "UnsignedShort" -> actualType # "UnsignedByte"
       [] expectedType = "UInt32" -> actualType \notin {"UnsignedByte", "UnsignedShort"}
       [] OTHER -> FALSE

GltfBufferData_create(actualType, expectedType, count) ==
  IF CreateRefuses(actualType, expectedType) THEN Undefined
  ELSE IF createDataBuffer(actualType) = "undefined" THEN Undefined
  ELSE [kind |-> "GltfBufferData", buffer |-> createDataBuffer(actualType), count |-> count]

CreateInit ==
  /\ arg \in [actualType : DataTypes, expectedType : DataTypes, count : 0..MaxCount]
  /\ ret = Pending
  /\ ProgramIdle

create_Call ==
  /\ ret = Pending
  /\ ret' = GltfBufferData_create(arg.actualType, arg.expectedType, arg.count)
  /\ UNCHANGED arg

CreateNext == create_Call /\ UNCHANGED programVars

SpecCreate == CreateInit /\ [][CreateNext]_vars

StoredTypes == {"UnsignedByte", "UnsignedShort", "UInt32", "Float"}

\* The pairs for which the claim says data is returned.
Convertible(actualType, expectedType) ==
  \/ expectedType = actualType /\ actualType \in StoredTypes
  \/ expectedType = "UnsignedShort" /\ actualType = "UnsignedByte"
  \/ expectedType = "UInt32" /\ actualType \in {"UnsignedByte", "UnsignedShort"}

\* C13: create returns data exactly for the pairs that are equal and one of the four
\* stored types, or that widen an unsigned integer; for every other pair it returns
\* undefined.
C13_CreateExactlyConvertible ==
  ret # Pending => (ret # Undefined <=> Convertible(arg.actualType, arg.expectedType))

\* ------------------------------------------------------------------------
\* GltfReader.getBufferView(json, accessorName), readBufferData(json, accessorName, type)

\* Lengths and offsets in bytes that the documents of this part use.
BufferLengths == {0, 8, 16}
ViewOffsets == {0, 4}
AccessorOffsets == {0, 2}
ByteStrides == {0, 8}
DataOffsets == {0, 1}

\* A data size no component type has.
DataSize_any(type) ==
  IF type \in {"UnsignedByte", "SignedByte"} THEN 1
  ELSE IF type = "UnsignedShort" THEN 2 ELSE 4

\* switch (type): the size of a component; 0 stands for the default case, which
\* returns undefined.
DataSize(type) ==
  CASE type = "UnsignedByte" -> 1
    [] type = "UnsignedShort" -> 2
    [] type \in {"UInt32", "Float"} -> 4
    [] OTHER -> 0

\* switch (accessor.type)
ComponentCount(type) ==
  CASE type = "VEC3" -> 3
    [] type = "VEC2" -> 2
    [] OTHER -> 1

Min(a, b) == IF a < b THEN a ELSE b

\* The length of Uint8Array.subarray(begin, end) and of slice(begin, end) for
\* 0 <= begin <= end on an array of len bytes: both ends are clamped to len.
SubarrayLength(len, begin, end) == Min(end, len) - Min(begin, len)

\* a: the accessor is named by json and found, its buffer view is named and found,
\* the view names a buffer, the buffer exists and is resolved.
ChainResolved(a) ==
  /\ a.accessor = "present"
  /\ a.bufferView = "present"
  /\ a.buffer = "resolved"

ByteStride(a) ==
  IF a.byteStride # 0 THEN a.byteStride
  ELSE ComponentCount(a.type) * DataSize(a.componentType)

ByteOffset(a) == a.viewOffset + a.accessorOffset
ByteLength(a) == ByteStride(a) * a.count

getBufferView(a) ==
  IF ~ChainResolved(a) THEN Undefined
  ELSE IF DataSize(a.componentType) = 0 THEN Undefined
  ELSE [kind |-> "GltfBufferView",
        byteLength |-> SubarrayLength(a.bufferLength, ByteOffset(a), ByteOffset(a) + ByteLength(a)),
        count |-> a.count,
        type |-> a.componentType,
        stride |-> ByteStride(a) \div DataSize(a.componentType),
        copied |-> (a.dataOffset + ByteOffset(a)) % DataSize(a.componentType) # 0]

\* GltfBufferView.toBufferData(desiredType)
toBufferData(view, desiredType) ==
  GltfBufferData_create(view.type, desiredType, view.count)

readBufferData(a, type) ==
  IF getBufferView(a) = Undefined THEN Undefined
  ELSE toBufferData(getBufferView(a), type)

BufferViewInit ==
  /\ arg \in [accessor : {"unnamed", "dangling", "present"},
              bufferView : {"unnamed", "dangling", "present"},
              buffer : {"unnamed", "dangling", "unresolved", "resolved"},
              componentType : DataTypes,
              type : {"SCALAR", "VEC3"},
              count : 0..MaxCount,
              accessorOffset : AccessorOffsets,
              viewOffset : ViewOffsets,
              byteStride : ByteStrides,
              bufferLength : BufferLengths,
              dataOffset : DataOffsets]
  /\ ret = Pending
  /\ ProgramIdle

\* The view, and the data read through it at the accessor's own component type.
getBufferView_Call ==
  /\ ret = Pending
  /\ ret' = [kind |-> "read", view |-> getBufferView(arg),
             data |-> readBufferData(arg, arg.componentType)]
  /\ UNCHANGED arg

BufferViewNext == getBufferView_Call /\ UNCHANGED programVars

SpecBufferView == BufferViewInit /\ [][BufferViewNext]_vars

\* C14: getBufferView returns undefined when the accessor, its buffer view or its
\* buffer is not named, not found or not resolved, or when the component type is
\* none of unsigned byte, unsigned short, uint32 and float; the data read through
\* it is then undefined as well.
C14_UnresolvedIsUndefined ==
  (ret # Pending /\ (~ChainResolved(arg) \/ arg.componentType \notin StoredTypes)) =>
    (ret.view = Undefined /\ ret.data = Undefined)

\* A signed-byte accessor on a resolved buffer has been looked up.
C14_Witness ==
  /\ ret # Pending /\ ChainResolved(arg) /\ arg.componentType = "SignedByte"
  /\ ret.view = Undefined

\* C15: getBufferView returns undefined when the bytes from the accessor's offset
\* to that offset plus stride * count are not all inside the resolved buffer.
C15_OutOfRangeIsUndefined ==
  (/\ ret # Pending /\ ChainResolved(arg) /\ arg.componentType \in StoredTypes
   /\ ByteOffset(arg) + ByteLength(arg) > arg.bufferLength) =>
    ret.view = Undefined

\* ------------------------------------------------------------------------
\* readMeshPrimitive and what it calls, on the sizes of the arrays

MaxVerts == 4

\* An accessor of the document together with the buffer view and the buffer it
\* leads to, tightly packed at offset 0: the argument getBufferView works on.
\* quantized: the accessor has WEB3D_quantized_attributes with decodedMin/Max.
Accessor(found, componentType, type, count, bufferLength, quantized) ==
  [accessor |-> found, bufferView |-> "present", buffer |-> "resolved",
   componentType |-> componentType, type |-> type, count |-> count,
   accessorOffset |-> 0, viewOffset |-> 0, byteStride |-> 0,
   bufferLength |-> bufferLength, dataOffset |-> 0, quantized |-> quantized]

\* The attribute is not in primitive.attributes.
Unnamed == Accessor("unnamed", "Float", "VEC3", 0, 0, FALSE)

\* The attribute names an accessor that leads to a buffer without resolvedBuffer.
Unresolved == [Accessor("present", "Float", "VEC3", 3, 36, FALSE) EXCEPT !.buffer = "unresolved"]

\* An accessor whose bytes are all in its buffer.
Packed(componentType, type, count, quantized) ==
  Accessor("present", componentType, type, count,
           count * ComponentCount(type) * DataSize(componentType), quantized)

Named(a) == a.accessor # "unnamed"

\* new GltfMeshData(meshPrimitive): the lengths of its arrays, -1 for one that is
\* not there; polylines and triangles count what the primitive holds.
NoMesh == [kind |-> "GltfMeshData", points |-> -1, indices |-> -1, normals |-> -1, uvs |-> -1,
           polylines |-> 0, triangles |-> 0]

\* The number of elements of the typed array createDataBuffer makes over the view.
BufferLength(view) == view.byteLength \div DataSize(view.type)

\* A reading of the positions that succeeds with no position at all.
readVertices_any(mesh, a) == [mesh EXCEPT !.points = 0]

\* readVertices: FALSE, or the mesh with points, a Uint16Array of three numbers for
\* each position.
readVertices(mesh, a) ==
  LET view == getBufferView(a) IN
  IF view = Undefined THEN Undefined
  ELSE IF view.type = "Float"
    THEN (IF toBufferData(view, "Float") = Undefined THEN Undefined
          ELSE [mesh EXCEPT !.points = 3 * view.count])
  ELSE IF view.type # "UnsignedShort" THEN Undefined
  ELSE IF ~a.quantized THEN Undefined
  ELSE IF toBufferData(view, "UnsignedShort") = Undefined THEN Undefined
  ELSE [mesh EXCEPT !.points = IF view.stride = 3 THEN BufferLength(view) ELSE 3 * view.count]

\* this.readBufferData16(json, "indices") || this.readBufferData32(json, "indices")
readIndexData(a) ==
  IF readBufferData(a, "UnsignedShort") # Undefined THEN readBufferData(a, "UnsignedShort")
  ELSE readBufferData(a, "UInt32")

\* A test of divisibility by three that any number passes.
DivisibleBy3_any(n) == TRUE

DivisibleBy3(n) == n % 3 = 0

\* readMeshIndices without json.indices: const numPoints = mesh.points?.length
NumPoints(mesh) == mesh.points

\* readMeshIndices: FALSE, or the mesh with the indices read or manufactured.
readMeshIndices(mesh, a) ==
  IF Named(a)
    THEN (IF readIndexData(a) # Undefined
               /\ readIndexData(a).buffer \in {"Uint8Array", "Uint16Array", "Uint32Array"}
            THEN [mesh EXCEPT !.indices = BufferLength(getBufferView(a))]
            ELSE Undefined)
  ELSE IF NumPoints(mesh) = -1 \/ ~DivisibleBy3(NumPoints(mesh)) THEN Undefined
  ELSE [mesh EXCEPT !.indices = NumPoints(mesh)]

\* readNormals: FALSE, or the mesh with one normal for each element of the accessor.
readNormals(mesh, a) ==
  LET view == getBufferView(a) IN
  IF view = Undefined THEN Undefined
  ELSE IF view.type \in {"Float", "UnsignedByte"}
    THEN (IF toBufferData(view, view.type) = Undefined THEN Undefined
          ELSE [mesh EXCEPT !.normals = view.count])
  ELSE Undefined

\* readUVParams: the mesh, with uvs when they could be read.
readUVParams(mesh, a) ==
  LET view == getBufferView(a) IN
  IF view = Undefined THEN mesh
  ELSE IF view.type = "Float"
    THEN (IF readBufferData(a, "Float") = Undefined THEN mesh
          ELSE [mesh EXCEPT !.uvs = 2 * view.count])
  ELSE IF view.type = "UnsignedShort"
    THEN (IF ~a.quantized \/ toBufferData(view, "UnsignedShort") = Undefined THEN mesh
          ELSE [mesh EXCEPT !.uvs = IF view.stride = 2 THEN BufferLength(view) ELSE 2 * view.count])
  ELSE mesh

\* deduplicateVertices on sizes: one vertex for each index.
deduplicateSizes(mesh) ==
  IF mesh.points = -1 \/ mesh.indices = -1 THEN Undefined
  ELSE [mesh EXCEPT !.points = 3 * mesh.indices,
                    !.normals = IF mesh.normals = -1 THEN -1 ELSE mesh.indices,
                    !.uvs = IF mesh.uvs = -1 THEN -1 ELSE 2 * mesh.indices]

\* What loader.parse left for a descriptor: nothing ("none"), or a mesh with its
\* topology and the lengths of indices.value and attributes.POSITION.value, -1
\* for one that is not there.
DracoMeshes ==
  {[kind |-> "none"]} \cup
  [kind : {"DracoMesh"}, topology : {"triangle-list", "triangle-strip"},
   indices : {-1, 0, 3, 4}, position : {-1, 3, 4, 9}]

\* The tests of readDracoMeshPrimitive without the one of the topology.
DracoUsable_anyTopology(draco) ==
  /\ draco.kind = "DracoMesh"
  /\ draco.indices # -1 /\ draco.indices % 3 = 0
  /\ draco.position # -1 /\ draco.position % 3 = 0

\* readDracoMeshPrimitive: the tests before the mesh is filled.
DracoUsable(draco) ==
  /\ draco.kind = "DracoMesh"
  /\ draco.topology = "triangle-list"
  /\ draco.indices # -1 /\ draco.indices % 3 = 0
  /\ draco.position # -1 /\ draco.position % 3 = 0

\* readDracoMeshPrimitive: FALSE, or the mesh with a triangle for every three indices.
readDracoMeshPrimitive(mesh, draco) ==
  IF ~DracoUsable(draco) THEN Undefined
  ELSE [mesh EXCEPT !.triangles = draco.indices \div 3]


\* readPolylines: FALSE, or the mesh with the indices of the accessor in polylines.
readPolylines(mesh, a) ==
  IF readBufferData(a, "UInt32") = Undefined THEN Undefined
  ELSE [mesh EXCEPT !.polylines = readBufferData(a, "UInt32").count]

\* The material of a primitive: none named (the empty material), one named and
\* not in the document, or one found; unlit has KHR_materials_unlit, textured
\* has a texture that findTextureMapping resolved.
Materials ==
  {[name |-> "unnamed", unlit |-> FALSE, textured |-> FALSE],
   [name |-> "missing", unlit |-> FALSE, textured |-> FALSE],
   [name |-> "found", unlit |-> FALSE, textured |-> FALSE],
   [name |-> "found", unlit |-> TRUE, textured |-> FALSE],
   [name |-> "found", unlit |-> FALSE, textured |-> TRUE]}

MeshModes == {"Triangles", "Lines", "Points", "TriangleStrip"}

NoExtension == [kind |-> "noExtension"]

PositionAccessors ==
  {Unnamed, Unresolved,
   Packed("Float", "VEC3", 1, FALSE), Packed("Float", "VEC3", 3, FALSE),
   Packed("Float", "VEC3", MaxVerts, FALSE),
   Packed("UnsignedShort", "VEC3", 3, TRUE), Packed("UnsignedShort", "VEC3", 3, FALSE),
   Packed("UInt32", "VEC3", 3, FALSE), Packed("SignedByte", "VEC3", 3, FALSE)}

IndexAccessors ==
  {Unnamed, Unresolved,
   Packed("UnsignedShort", "SCALAR", 3, FALSE), Packed("Float", "SCALAR", 3, FALSE)}

NormalAccessors == {Unnamed, Unresolved, Packed("Float", "VEC3", 3, FALSE)}

UVAccessors == {Unnamed, Packed("Float", "VEC2", 3, FALSE)}

\* Primitives without KHR_draco_mesh_compression.
PlainPrimitives ==
  [material : Materials, mode : MeshModes, draco : {NoExtension},
   POSITION : PositionAccessors, indices : IndexAccessors,
   NORMAL : NormalAccessors, TEXCOORD_0 : UVAccessors]

\* Primitives with KHR_draco_mesh_compression; what the loader left for the
\* descriptor is in draco.
DracoPrimitives ==
  [material : Materials, mode : {"Triangles"}, draco : DracoMeshes,
   POSITION : {Unnamed}, indices : {Unnamed}, NORMAL : {Unnamed}, TEXCOORD_0 : {Unnamed}]

\* A primitive every step of readMeshPrimitive accepts.
GoodPrimitive ==
  [material |-> [name |-> "found", unlit |-> FALSE, textured |-> FALSE],
   mode |-> "Triangles", draco |-> NoExtension,
   POSITION |-> Packed("Float", "VEC3", 3, FALSE),
   indices |-> Packed("UnsignedShort", "SCALAR", 3, FALSE),
   NORMAL |-> Unnamed, TEXCOORD_0 |-> Unnamed]

hasBakedLighting(p) == ~Named(p.NORMAL) \/ p.material.unlit

\* case Mesh.PrimitiveType.Mesh of readMeshPrimitive, after readVertices.
readTriangles(mesh, p, dedup) ==
  IF readMeshIndices(mesh, p.indices) = Undefined THEN Undefined
  ELSE IF ~hasBakedLighting(p) /\ readNormals(readMeshIndices(mesh, p.indices), p.NORMAL) = Undefined
    THEN Undefined
  ELSE LET lit == IF hasBakedLighting(p) THEN readMeshIndices(mesh, p.indices)
                  ELSE readNormals(readMeshIndices(mesh, p.indices), p.NORMAL)
           withUVs == readUVParams(lit, p.TEXCOORD_0)
       IN IF dedup THEN deduplicateSizes(withUVs) ELSE withUVs

\* readMeshPrimitive: undefined, or the mesh data of the primitive.
readMeshPrimitive(p, dedup) ==
  IF p.material.name = "missing" THEN Undefined
  ELSE IF p.mode \notin {"Triangles", "Lines", "Points"} THEN Undefined
  ELSE IF p.draco # NoExtension THEN readDracoMeshPrimitive(NoMesh, p.draco)
  ELSE IF readVertices(NoMesh, p.POSITION) = Undefined THEN Undefined
  ELSE LET withPoints == readVertices(NoMesh, p.POSITION)
           read == IF p.mode = "Triangles" THEN readTriangles(withPoints, p, dedup)
                   ELSE readPolylines(withPoints, p.indices)
       IN IF read = Undefined THEN Undefined
          ELSE IF p.material.textured /\ read.uvs = -1 THEN Undefined
          ELSE read

\* The primitives of the node's mesh: one primitive alone, or with a sound
\* primitive before or after it.
PrimitiveLists ==
  {<<p>> : p \in PlainPrimitives \cup DracoPrimitives}
    \cup {<<p, GoodPrimitive>> : p \in PlainPrimitives \cup DracoPrimitives}
    \cup {<<GoodPrimitive, p>> : p \in PlainPrimitives \cup DracoPrimitives}

PrimitivesInit ==
  /\ ProgramIdle
  /\ arg \in [kind : {"node"}, primitives : PrimitiveLists, deduplicateVertices : BOOLEAN]
  /\ ret = [kind |-> "meshes", next |-> 1, meshes |-> <<>>, graphics |-> {}, done |-> FALSE]

\* One turn of the loop of readMeshPrimitives: the primitive is read and its mesh,
\* if there is one, pushed with the place of the primitive it came from.
readMeshPrimitives_Step ==
  /\ arg.kind = "node"
  /\ ret.next <= Len(arg.primitives)
  /\ LET mesh == readMeshPrimitive(arg.primitives[ret.next], arg.deduplicateVertices) IN
     ret' = [ret EXCEPT !.next = @ + 1,
                        !.meshes = IF mesh = Undefined THEN @
                                   ELSE Append(@, [src |-> ret.next, mesh |-> mesh])]
  /\ UNCHANGED arg

MeshSources(list) == {list[i].src : i \in 1..Len(list)}

\* readNodeAndCreateGraphics after readMeshPrimitives: a graphic for each mesh
\* the render system makes one of.
createGraphics ==
  /\ arg.kind = "node"
  /\ ret.next = Len(arg.primitives) + 1
  /\ ~ret.done
  /\ \E made \in SUBSET MeshSources(ret.meshes) :
       ret' = [ret EXCEPT !.graphics = made, !.done = TRUE]
  /\ UNCHANGED arg

PrimitivesNext ==
  \/ readMeshPrimitives_Step /\ UNCHANGED programVars
  \/ createGraphics /\ UNCHANGED programVars

SpecPrimitives == PrimitivesInit /\ [][PrimitivesNext]_vars

\* The primitives the loop has been through.
WasRead(i) == i \in 1..Len(arg.primitives) /\ i < ret.next

Dropped(i) == i \notin MeshSources(ret.meshes) /\ i \notin ret.graphics

\* The primitives other than i that the loop has been through have a mesh in the
\* list exactly when readMeshPrimitive gives one.
OthersProcessed(i) ==
  \A j \in 1..Len(arg.primitives) :
    (j # i /\ WasRead(j)) =>
      (j \in MeshSources(ret.meshes)
         <=> readMeshPrimitive(arg.primitives[j], arg.deduplicateVertices) # Undefined)

\* C16: a triangle primitive without an index accessor whose number of vertices
\* is not divisible by 3 gets no indices from readMeshIndices.
C16_OddVertexCountFails ==
  \A i \in 1..Len(arg.primitives) :
    LET p == arg.primitives[i] IN
    (/\ arg.kind = "node" /\ WasRead(i)
     /\ p.draco = NoExtension /\ p.mode = "Triangles" /\ ~Named(p.indices)
     /\ readVertices(NoMesh, p.POSITION) # Undefined
     /\ p.POSITION.count % 3 # 0)
      => readMeshIndices(readVertices(NoMesh, p.POSITION), p.indices) = Undefined

\* The decoded mesh of a compressed primitive is unusable for one of the reasons
\* C11 names.
DracoFailed(draco) ==
  \/ draco.kind # "DracoMesh"
  \/ draco.topology # "triangle-list"
  \/ draco.indices # -1 /\ draco.indices % 3 # 0
  \/ draco.position = -1
  \/ draco.position % 3 # 0

\* C11: a primitive with the compression extension whose descriptor has no decoded
\* mesh, or a mesh that is not a triangle list, or whose index count or position
\* length is not a multiple of 3, or without positions, has no mesh in the list and
\* no graphic; the loop goes on to the end and the other primitives are read as
\* they would be without it.
C11_UnusableDracoDropped ==
  \A i \in 1..Len(arg.primitives) :
    (/\ arg.kind = "node" /\ WasRead(i)
     /\ arg.primitives[i].draco # NoExtension
     /\ DracoFailed(arg.primitives[i].draco))
      => /\ Dropped(i)
         /\ OthersProcessed(i)
         /\ ret.done => ret.next = Len(arg.primitives) + 1

C11_Witness ==
  /\ arg.kind = "node" /\ ret.done
  /\ Len(arg.primitives) = 2
  /\ arg.primitives[1].draco # NoExtension
  /\ arg.primitives[1].draco.kind = "DracoMesh"
  /\ arg.primitives[1].draco.topology = "triangle-list"
  /\ arg.primitives[1].draco.indices = 4
  /\ arg.primitives[1].material.name = "found"
  /\ MeshSources(ret.meshes) = {2}
  /\ ret.graphics = {2}

MaxRequests == 3

TextureIds == {"t0", "t1"}

\* { id, isTransparent }; compareTextureKeys is 0 exactly for two keys with the
\* same flag and the same id.
TextureKeys == TextureIds \X BOOLEAN

\* What _resolvedTextures.get gives: 0 for undefined, -1 for false, and n > 0 for
\* the n-th RenderTexture the render system made.
NoEntry == 0
Failed == -1

\* A look-up that takes a cached failure for no entry.
CacheMiss_falsy(texture) == texture \in {NoEntry, Failed}

\* undefined === texture
CacheMiss(texture) == texture = NoEntry

\* resolveTexture: false when the texture or its resolved image is not there or
\* the render system makes nothing, else the texture made.
resolveTexture(id, made, serial) ==
  IF ~arg.resolvable[id] THEN Failed
  ELSE IF made THEN serial ELSE Failed

\* Dictionary.get and Dictionary.set: the entry of the key that compares equal,
\* undefined when there is none.
DictionaryGet(dict, key) == dict[key]
DictionarySet(dict, key, value) == [dict EXCEPT ![key] = value]

\* get, and set(key, resolveTexture(...)) when nothing is there: the state of
\* the reader afterwards.
Lookup(s, key, made) ==
  IF CacheMiss(DictionaryGet(s.cache, key))
    THEN LET texture == resolveTexture(key[1], made, s.created + 1) IN
         [s EXCEPT !.cache = DictionarySet(@, key, texture),
                   !.calls[key] = @ + 1,
                   !.created = IF texture = Failed THEN @ ELSE @ + 1]
    ELSE s

TextureInit ==
  /\ ProgramIdle
  /\ arg \in [kind : {"textures"}, resolvable : [TextureIds -> BOOLEAN]]
  /\ ret = [kind |-> "reader", cache |-> [k \in TextureKeys |-> NoEntry],
            calls |-> [k \in TextureKeys |-> 0], created |-> 0, requests |-> 0,
            last |-> [id |-> "undefined", isTransparent |-> FALSE, normalMapId |-> "undefined",
                      texture |-> NoEntry, normalMap |-> NoEntry, hit |-> FALSE]]

\* findTextureMapping(id, isTransparent, normalMapId) for a material with a
\* texture or a normal map; made1 and made2: the render system makes the texture
\* it is asked for.
findTextureMapping ==
  /\ arg.kind = "textures"
  /\ ret.requests < MaxRequests
  /\ \E id \in TextureIds \cup {"undefined"}, isTransparent \in BOOLEAN,
        normalMapId \in TextureIds \cup {"undefined"}, made1 \in BOOLEAN, made2 \in BOOLEAN :
       /\ id # "undefined" \/ normalMapId # "undefined"
       /\ LET s1 == IF id # "undefined" THEN Lookup(ret, <<id, isTransparent>>, made1) ELSE ret
              s2 == IF normalMapId # "undefined" THEN Lookup(s1, <<normalMapId, FALSE>>, made2) ELSE s1
          IN ret' = [s2 EXCEPT !.requests = @ + 1,
                               !.last = [id |-> id, isTransparent |-> isTransparent,
                                         normalMapId |-> normalMapId,
                                         texture |-> IF id # "undefined"
                                                       THEN s1.cache[<<id, isTransparent>>] ELSE NoEntry,
                                         normalMap |-> IF normalMapId # "undefined"
                                                         THEN s2.cache[<<normalMapId, FALSE>>] ELSE NoEntry,
                                         hit |-> id # "undefined"
                                                   /\ ret.cache[<<id, isTransparent>>] # NoEntry]]
  /\ UNCHANGED arg

TextureNext == findTextureMapping /\ UNCHANGED programVars

SpecTexture == TextureInit /\ [][TextureNext]_vars

\* C12: resolveTexture runs at most once for a key (texture id, transparency
\* flag): once a key has an entry, a texture or the failure, no request changes it
\* or resolves the key again, and a request for it gets the entry.
C12_ResolvedOncePerKey ==
  /\ [](\A key \in TextureKeys : ret.calls[key] <= 1)
  /\ [][\A key \in TextureKeys :
          ret.cache[key] # NoEntry =>
            /\ ret'.cache[key] = ret.cache[key]
            /\ ret'.calls[key] = ret.calls[key]
            /\ (ret'.last.id = key[1] /\ ret'.last.isTransparent = key[2])
                 => ret'.last.texture = ret.cache[key]]_vars

\* A failed key was asked for again and a resolved one too.
C12_Witness ==
  /\ arg.kind = "textures"
  /\ ret.requests = MaxRequests
  /\ ret.last.hit
  /\ ret.last.texture = Failed
  /\ ret.calls[<<ret.last.id, ret.last.isTransparent>>] = 1
  /\ \E key \in TextureKeys : ret.cache[key] > 0

\* ------------------------------------------------------------------------
\* createDisplayParams: the transparency and the colour of a material

\* The alpha of a colour source, in 255ths; -1 when the material has no such source.
Alphas == {-1, 0, 128, 255}

\* The technique a legacy material names: none, one the document does not have,
\* one without states, one whose states.enable has Blend, one whose has not.
Techniques == {"undefined", "missing", "nostates", "blend", "noblend"}

AlphaModes == {"undefined", "OPAQUE", "MASK", "BLEND"}

\* isGltf1Material: the material is of the legacy kind.
isGltf1Material(material) == material.legacy

\* ColorDef.white, and ColorDef.from(r, g, b, t) with t the transparency byte.
White == [transparency |-> 0]

\* colorFromJson: transparency (1.0 - values[3]) * 255.
colorFromJson(alpha) == [transparency |-> 255 - alpha]

\* ColorDef.withTransparency
withTransparency(color, t) == [color EXCEPT !.transparency = t]

\* A reading of the alpha mode that takes MASK for transparent too.
isModernTransparent_mask(alphaMode) == alphaMode \in {"BLEND", "MASK"}

\* "BLEND" === material.alphaMode
isModernTransparent(alphaMode) == alphaMode = "BLEND"

isMaterialTransparent(material) ==
  IF isGltf1Material(material)
    THEN /\ arg.techniques
         /\ material.technique # "undefined"
         /\ material.technique = "blend"
    ELSE isModernTransparent(material.alphaMode)

colorFromMaterial(material, isTransparent) ==
  LET color == IF isGltf1Material(material)
                 THEN (IF material.color # -1 THEN colorFromJson(material.color) ELSE White)
               ELSE IF material.u_color # -1 THEN colorFromJson(material.u_color)
               ELSE IF material.baseColorFactor # -1 THEN colorFromJson(material.baseColorFactor)
               ELSE White
  IN IF ~isTransparent THEN withTransparency(color, 0) ELSE color

MaterialInit ==
  /\ ProgramIdle
  /\ arg \in [kind : {"material"}, techniques : BOOLEAN,
              material : [legacy : BOOLEAN, technique : Techniques, alphaMode : AlphaModes,
                          color : Alphas, u_color : Alphas, baseColorFactor : Alphas]]
  /\ ret = Pending

\* createDisplayParams as far as isTransparent and color.
createDisplayParams ==
  /\ arg.kind = "material"
  /\ ret = Pending
  /\ ret' = [kind |-> "DisplayParams",
             isTransparent |-> isMaterialTransparent(arg.material),
             color |-> colorFromMaterial(arg.material, isMaterialTransparent(arg.material))]
  /\ UNCHANGED arg

MaterialNext == createDisplayParams /\ UNCHANGED programVars

SpecMaterial == MaterialInit /\ [][MaterialNext]_vars

\* The document has the technique the material names and its enabled states
\* include blending.
TechniqueEnablesBlend == arg.techniques /\ arg.material.technique = "blend"

\* C19: a material is transparent exactly when it is a legacy material whose
\* technique enables blending or a modern one whose alphaMode is "BLEND"; the
\* colour of a material that is not transparent has transparency 0.
C19_TransparentExactlyOnBlend ==
  (arg.kind = "material" /\ ret # Pending) =>
    /\ ret.isTransparent <=>
         \/ arg.material.legacy /\ TechniqueEnablesBlend
         \/ ~arg.material.legacy /\ arg.material.alphaMode = "BLEND"
    /\ ~ret.isTransparent => ret.color.transparency = 0

C19_Witness ==
  /\ arg.kind = "material" /\ ret # Pending
  /\ ~arg.material.legacy
  /\ arg.material.alphaMode = "MASK"
  /\ arg.material.u_color = -1 /\ arg.material.baseColorFactor = 128
  /\ ~ret.isTransparent
  /\ ret.color.transparency = 0

\* ------------------------------------------------------------------------
\* deduplicateVertices on the contents of the arrays

MaxReads == 2
NumVerts == 3

\* 0xff and 0xffff
Uint8Max == 255
Uint16Max == 65535

IndexArrays == {"Uint8Array", "Uint16Array", "Uint32Array"}

\* What an element of a typed array holds after value is stored in it; a
\* Uint32Array holds every number that occurs here as it is.
Store(type, value) ==
  CASE type = "Uint8Array" -> value % (Uint8Max + 1)
    [] type = "Uint16Array" -> value % (Uint16Max + 1)
    [] OTHER -> value

\* The type of mesh.indices in the loop of deduplicateVertices.
DedupIndexType(type, numPoints) ==
  IF type = "Uint16Array" /\ numPoints > Uint16Max THEN "Uint32Array"
  ELSE IF type = "Uint8Array" /\ numPoints > Uint8Max THEN "Uint32Array"
  ELSE type

\* The vertex of the document at a place of the position, normal and uv arrays:
\* its three coordinates, its normal and its two parameters as one value.
VertexAt(index) == 10 + index

\* The indices of the accessor as the document has them when it is loaded: every
\* triangle on NumVerts vertices, and one list longer than a Uint8Array can number.
IndexLists ==
  [1..3 -> 0..(NumVerts - 1)]
    \cup {[i \in 1..(Uint8Max + 3) |-> (Uint8Max + 3 - i) % NumVerts]}

\* deduplicateVertices: indices[i] is read, then i is stored in mesh.indices[i].
DedupIndices(type, indices) ==
  [i \in 1..Len(indices) |-> Store(DedupIndexType(type, Len(indices)), i - 1)]

\* points[i * 3 + k] = mesh.points[index * 3 + k], and so for normals and uvs: a
\* place past the end of the array reads as undefined and is stored as 0.
DedupVertices(vertices, indices) ==
  [i \in 1..Len(indices) |->
     IF indices[i] + 1 \in DOMAIN vertices THEN vertices[indices[i] + 1] ELSE 0]

DedupInit ==
  /\ ProgramIdle
  /\ arg \in [kind : {"indexed"}, indices : IndexLists, type : {"Uint8Array", "Uint16Array"},
              aligned : BOOLEAN, deduplicateVertices : BOOLEAN]
  /\ ret = [kind |-> "reader", resolvedBuffer |-> arg.indices, reads |-> 0,
            mesh |-> [vertices |-> <<>>, indices |-> <<>>, type |-> arg.type]]

\* readMeshPrimitive for a triangle primitive whose indices are this accessor and
\* whose POSITION, NORMAL and TEXCOORD_0 hold NumVerts vertices. For aligned data
\* mesh.indices is a typed array on the bytes of resolvedBuffer (subarray), so
\* what deduplicateVertices stores in it without widening is stored in the buffer.
readMeshPrimitive_Indexed ==
  /\ arg.kind = "indexed"
  /\ ret.reads < MaxReads
  /\ LET indices == ret.resolvedBuffer
         vertices == [v \in 1..NumVerts |-> VertexAt(v - 1)]
         type == DedupIndexType(arg.type, Len(indices))
     IN IF arg.deduplicateVertices
          THEN ret' = [ret EXCEPT !.reads = @ + 1,
                                  !.mesh = [vertices |-> DedupVertices(vertices, indices),
                                            indices |-> DedupIndices(arg.type, indices),
                                            type |-> type],
                                  !.resolvedBuffer = IF arg.aligned /\ type = arg.type
                                                       THEN DedupIndices(arg.type, indices)
                                                       ELSE @]
          ELSE ret' = [ret EXCEPT !.reads = @ + 1,
                                  !.mesh = [vertices |-> vertices, indices |-> indices,
                                            type |-> arg.type]]
  /\ UNCHANGED arg

DedupNext == readMeshPrimitive_Indexed /\ UNCHANGED programVars

SpecDedup == DedupInit /\ [][DedupNext]_vars

\* C20: with deduplication a mesh of n indices leaves readMeshPrimitive with n
\* vertices and the indices 0 .. n-1, vertex i being the vertex of the document
\* that the i-th index of the document names; without it the vertices and the
\* indices are those of the document.
C20_DedupExpandsEveryIndex ==
  (arg.kind = "indexed" /\ ret.reads > 0) =>
    IF arg.deduplicateVertices
      THEN /\ Len(ret.mesh.vertices) = Len(arg.indices)
           /\ Len(ret.mesh.indices) = Len(arg.indices)
           /\ \A i \in 1..Len(arg.indices) :
                /\ ret.mesh.indices[i] = i - 1
                /\ ret.mesh.vertices[i] = VertexAt(arg.indices[i])
      ELSE /\ ret.mesh.indices = arg.indices
           /\ ret.mesh.vertices = [v \in 1..NumVerts |-> VertexAt(v - 1)]

\* ------------------------------------------------------------------------
\* The status of readGltfAndCreateGraphics

\* What readGltfAndCreateGraphics returns after the loop over the scene nodes:
\* { readStatus, isLeaf } for an empty list, else the graphic with readStatus.
GltfReaderResult == [status |-> readStatus, graphic |-> ~EmptyList]

\* C18: a read that ran to its end without being canceled returns Success exactly
\* when a primitive of the traversal gave a graphic and InvalidTileData exactly
\* when none did, and its result has a graphic exactly when the status is Success.
C18_SuccessIffGraphic ==
  (mode = "graphics" /\ astatus = "done") =>
    /\ GltfReaderResult.status = "Success" <=> madeGraphic
    /\ GltfReaderResult.status = "InvalidTileData" <=> ~madeGraphic
    /\ GltfReaderResult.graphic <=> GltfReaderResult.status = "Success"

\* A read of several primitives that ended with one graphic in its list.
C18_Witness ==
  /\ mode = "graphics" /\ astatus = "done"
  /\ madeGraphic
  /\ primReads >= 2 /\ outCount = 1
  /\ GltfReaderResult = [status |-> "Success", graphic |-> TRUE]

\* ------------------------------------------------------------------------
\* readDracoMeshPrimitive: what it puts into the mesh

MaxUVLen == 9

\* uvs.length & 2
BitAnd2(n) == ((n \div 2) % 2) * 2

\* for (let i = 0; i < length; i += step): the number of turns.
Turns(length, step) == (length + step - 1) \div step

\* The uv parameters pushed for a TEXCOORD_0 array of this length, -1 for none.
DracoUVParams(length) ==
  IF length # -1 /\ BitAnd2(length) = 0 THEN Turns(length, 2) ELSE 0

\* The normals pushed for a NORMAL array of this length, -1 for none.
DracoNormals(length) ==
  IF length # -1 /\ length % 3 = 0 THEN Turns(length, 3) ELSE 0

DracoFillInit ==
  /\ ProgramIdle
  /\ arg \in [kind : {"DracoMesh"}, topology : {"triangle-list", "triangle-strip"},
              indices : {-1, 0, 3, 4}, position : {-1, 3, 4, 9}, normals : {-1, 3, 4},
              uvs : -1..MaxUVLen]
  /\ ret = Pending

\* readDracoMeshPrimitive for a descriptor whose decoded mesh is arg.
readDracoMeshPrimitive_Call ==
  /\ arg.kind = "DracoMesh"
  /\ ret = Pending
  /\ ret' = IF readDracoMeshPrimitive(NoMesh, arg) = Undefined
              THEN [kind |-> "false"]
              ELSE [kind |-> "true",
                    triangles |-> readDracoMeshPrimitive(NoMesh, arg).triangles,
                    points |-> Turns(arg.position, 3),
                    normals |-> DracoNormals(arg.normals),
                    uvParams |-> DracoUVParams(arg.uvs)]
  /\ UNCHANGED arg

DracoFillNext == readDracoMeshPrimitive_Call /\ UNCHANGED programVars

SpecDracoFill == DracoFillInit /\ [][DracoFillNext]_vars

\* C30: a decoded primitive with a TEXCOORD_0 array of even length 2k, k >= 1,
\* gets k uv parameters, and one with an array of odd length gets none.
C30_OneUVPerPair ==
  (arg.kind = "DracoMesh" /\ ret # Pending /\ ret.kind = "true" /\ arg.uvs >= 1) =>
    IF arg.uvs % 2 = 0 THEN ret.uvParams = arg.uvs \div 2 ELSE ret.uvParams = 0


\* C24: in every mesh readMeshPrimitive returned for a primitive without the
\* compression extension the length of points is a multiple of 3, the length of
\* uvs, when there are uvs, a multiple of 2, and the length of normals, when there
\* are normals, the number of vertices.
C24_BufferLengthsConsistent ==
  arg.kind = "node" =>
    \A k \in 1..Len(ret.meshes) :
      LET mesh == ret.meshes[k].mesh IN
      arg.primitives[ret.meshes[k].src].draco = NoExtension =>
        /\ mesh.points % 3 = 0
        /\ mesh.uvs # -1 => mesh.uvs % 2 = 0
        /\ mesh.normals # -1 => mesh.normals = mesh.points \div 3


\* C26: a triangle primitive without an index accessor whose POSITION has V
\* vertices, V divisible by 3, gets the V indices 0 .. V-1.
C26_SynthesizedIndicesSequential ==
  arg.kind = "node" =>
    \A k \in 1..Len(ret.meshes) :
      LET p == arg.primitives[ret.meshes[k].src] IN
      (/\ p.draco = NoExtension /\ p.mode = "Triangles" /\ ~Named(p.indices)
       /\ p.POSITION.count % 3 = 0)
        => ret.meshes[k].mesh.indices = p.POSITION.count

\* ------------------------------------------------------------------------
\* readVertices: the positions, their range and the bias, on one axis

MaxCoord == 2
MaxPoints == 2

\* The largest quantized coordinate, in place of 0xffff.
QMax == 2

Coords == (-MaxCoord)..MaxCoord

\* pseudoRtcBias: undefined, or its coordinate on the axis.
NoBias == [def |-> FALSE, x |-> 0]
Biases == {NoBias} \cup [def : {TRUE}, x : Coords \ {0}]

RECURSIVE MinOf(_)
MinOf(s) == IF Len(s) = 1 THEN s[1] ELSE Min(s[1], MinOf(Tail(s)))
RECURSIVE MaxOf(_)
MaxOf(s) == IF Len(s) = 1 THEN s[1] ELSE -Min(-s[1], -MaxOf(Tail(s)))

\* The float path: mesh.pointRange is extended by every position of the buffer
\* as it is stored, and the quantization parameters are made from it.
FloatRange(xs, bias) == [low |-> MinOf(xs), high |-> MaxOf(xs)]

\* The float path: scratchPoint.subtractInPlace(pseudoRtcBias) before positions.add.
FloatPositions(xs, bias) == [i \in DOMAIN xs |-> QMax * (xs[i] - bias.x)]

\* The unsigned-short path: the range is decodedMin .. decodedMax, with the bias
\* taken off low and high.
QuantizedRange(decodedMin, decodedMax, bias) ==
  [low |-> decodedMin - bias.x, high |-> decodedMax - bias.x]

\* The unsigned-short path: the stored numbers are kept; the position a number q
\* stands for under a range is low + q * (high - low) / QMax.
QuantizedPositions(qs, range) ==
  [i \in DOMAIN qs |-> QMax * range.low + qs[i] * (range.high - range.low)]

VerticesInit ==
  /\ ProgramIdle
  /\ arg \in [kind : {"Float"}, xs : UNION {[1..n -> Coords] : n \in 1..MaxPoints},
              decodedMin : {0}, width : {0}, bias : Biases]
       \cup [kind : {"UnsignedShort"}, xs : UNION {[1..n -> 0..QMax] : n \in 1..MaxPoints},
             decodedMin : Coords, width : 0..MaxCoord, bias : Biases]
  /\ ret = Pending

\* readVertices(mesh, primitive, pseudoRtcBias): pointRange, from which
\* pointQParams is made, and the positions the points stand for, QMax-fold.
readVertices_Call ==
  /\ arg.kind \in {"Float", "UnsignedShort"}
  /\ ret = Pending
  /\ ret' = IF arg.kind = "Float"
              THEN [kind |-> "points", pointRange |-> FloatRange(arg.xs, arg.bias),
                    positions |-> FloatPositions(arg.xs, arg.bias)]
              ELSE LET range == QuantizedRange(arg.decodedMin, arg.decodedMin + arg.width, arg.bias)
                   IN [kind |-> "points", pointRange |-> range,
                       positions |-> QuantizedPositions(arg.xs, range)]
  /\ UNCHANGED arg

VerticesNext == readVertices_Call /\ UNCHANGED programVars

SpecVertices == VerticesInit /\ [][VerticesNext]_vars

\* C25: with a bias, in the float path and in the unsigned-short path, every
\* position readVertices leaves is inside the range the quantization parameters
\* are made from.
C25_BiasedPositionsInRange ==
  (arg.kind \in {"Float", "UnsignedShort"} /\ ret # Pending /\ arg.bias.def) =>
    \A i \in DOMAIN ret.positions :
      /\ QMax * ret.pointRange.low <= ret.positions[i]
      /\ ret.positions[i] <= QMax * ret.pointRange.high

\* ------------------------------------------------------------------------
\* read(): cancellation before resolution begins

\* C23: when _isCanceled is already true as _resolveResources begins, no
\* resolveBuffer call goes on to fetch and no resolveImage call is started.
C23_NoFetchWhenCanceledAtStart ==
  /\ [][(phase = "start" /\ aborted) => \A b \in DOMAIN btask' : btask'[b] # "fetch"]_vars
  /\ [][(aborted /\ \A i \in DOMAIN itask : itask[i] = "none")
          => \A i \in DOMAIN itask' : itask'[i] = "none"]_vars

\* ------------------------------------------------------------------------
\* The recursion of the geometry traversal

\* C27: readGltfAndCreateGeometry stops with a failure on a document whose nodes
\* form a cycle instead of recursing on: its calls of readNodeAndCreatePolyfaces
\* are never nested deeper than a path without a repeated node is long, plus the
\* call that meets the repeated node.
C27_GeometryRecursionBounded ==
  mode = "geometry" => Len(cstack) <= NodeCount + 1

\* ------------------------------------------------------------------------
\* Nodes with several meshes (the legacy `meshes` list of a node)

MeshIdLists == {<<0>>, <<0, 1>>, <<1, 1>>}

\* Node 0 has one of the lists of mesh ids, the other nodes have no mesh; at most
\* one child reference.
MultiMeshDocuments ==
  {[n \in DOMAIN nd |->
      [children |-> nd[n].children,
       meshes |-> IF n = 0 THEN ids ELSE <<>>,
       xf |-> TRUE]] : nd \in Graphs(1), ids \in MeshIdLists}

MultiMeshInit ==
  /\ nodes \in MultiMeshDocuments
  /\ sceneNodes \in SeqsUpTo(NodeIds, 1)
  /\ meshes \in [{0, 1} -> UNION {[1..k -> Primitive] : k \in 1..MaxPrims}]
  /\ buffers = <<>>
  /\ images = <<>>
  /\ TravIdle
  /\ mode \in {"graphics", "geometry"}
  /\ xstack = <<>>
  /\ cstack = <<>>
  /\ rootIdx = 1
  /\ astatus = "running"
  /\ readStatus = "InvalidTileData"
  /\ outCount = 0
  /\ primReads = 0
  /\ lastCall = [node |-> -1, entry |-> 0, exit |-> 0]
  /\ assertOk = TRUE
  /\ rendered = FALSE
  /\ madeGraphic = FALSE
  /\ ReadIdle
  /\ UnitIdle

SpecMultiMesh == MultiMeshInit /\ [][AssembleNext]_vars

\* C28: a graphics traversal that visits one node, once, has read each primitive
\* of each mesh of the node once when it is over.
C28_PrimitiveReadOncePerVisit ==
  (/\ mode = "graphics" /\ astatus = "done"
   /\ Len(sceneNodes) = 1 /\ sceneNodes[1] \in DOMAIN nodes
   /\ Kids(sceneNodes[1]) = <<>>)
    => primReads = Len(NodePrimitives(sceneNodes[1]))


\* ------------------------------------------------------------------------
\* The transform stack along the graphics traversal

\* Documents whose nodes carry a local transform or none, independently; the nodes
\* with an even id carry mesh 0.
TransformDocuments ==
  {[n \in DOMAIN nd |->
      [children |-> nd[n].children,
       meshes |-> IF n % 2 = 0 THEN <<0>> ELSE <<>>,
       xf |-> n \in X]] : nd \in AsmGraphs, X \in SUBSET NodeIds}

TransformInit ==
  /\ nodes \in TransformDocuments
  /\ sceneNodes \in SeqsUpTo(NodeIds, MaxRoots)
  /\ meshes = [m \in {0} |-> <<[draco |-> -1]>>]
  /\ buffers = <<>>
  /\ images = <<>>
  /\ TravIdle
  /\ mode \in {"graphics", "geometry"}
  /\ xstack = <<>>
  /\ cstack = <<>>
  /\ rootIdx = 1
  /\ astatus = "running"
  /\ readStatus = "InvalidTileData"
  /\ outCount = 0
  /\ primReads = 0
  /\ lastCall = [node |-> -1, entry |-> 0, exit |-> 0]
  /\ assertOk = TRUE
  /\ rendered = FALSE
  /\ madeGraphic = FALSE
  /\ ReadIdle
  /\ UnitIdle

SpecTransform == TransformInit /\ [][AssembleNext]_vars

\* The local transforms of the nodes from the scene root down to the node whose call
\* is running, multiplied in that order.
PathTransform ==
  Concat([k \in DOMAIN cstack |-> NodeTransform(cstack[k].node).path])

\* const thisTransform = transformStack.transform, after transformStack.push(node)
thisTransform == StackTop(xstack)

\* C22: in the graphics traversal, once a node's call has pushed the node, the active
\* transform is the product, in path order, of the local transforms of the nodes from
\* the scene root to that node, whatever was visited before; it is undefined when no
\* node of the path has a transform, and a node without a transform of its own leaves
\* its parent's unchanged.
C22_ActiveTransformIsPathProduct ==
  (mode = "graphics" /\ astatus = "running" /\ cstack # <<>> /\ Frame.pc # "enter")
    => /\ thisTransform.path = PathTransform
       /\ thisTransform.def = (PathTransform # <<>>)
       /\ Len(xstack) = Len(cstack)

\* The second scene root's subtree is being visited: a grandchild with a transform
\* under a child without one under a root with one, after the first root was visited.
C22_Witness ==
  /\ mode = "graphics"
  /\ astatus = "running"
  /\ rootIdx = 2
  /\ Len(cstack) = 3
  /\ Frame.pc = "meshes"
  /\ nodes[cstack[1].node].xf
  /\ ~nodes[cstack[2].node].xf
  /\ nodes[cstack[3].node].xf
  /\ cstack[1].node # cstack[3].node
  /\ thisTransform.path = <<cstack[1].node, cstack[3].node>>


\* ------------------------------------------------------------------------
\* The pseudo-origin bias along the graphics traversal

BiasMagnitudes == {"none", "small", "large"}

\* Documents of which node 0 has a matrix or not; the nodes with an even id carry mesh 0.
BiasDocuments ==
  {[n \in DOMAIN nd |->
      [children |-> nd[n].children,
       meshes |-> IF n % 2 = 0 THEN <<0>> ELSE <<>>,
       xf |-> (n = 0 /\ m)]] : nd \in AsmGraphs, m \in BOOLEAN}

\* The pseudoRtcBias readGltfAndCreateGraphics goes on with: the argument, dropped when
\* the reader has an RTC center, when node 0 has a matrix, or when it is short.
pseudoRtcBias ==
  IF arg.returnToCenter \/ (0 \in DOMAIN nodes /\ nodes[0].xf) \/ arg.pseudoRtcBias = "small"
    THEN "none"
    ELSE arg.pseudoRtcBias

\* getTileTransform: the translation of the transform put around the whole graphic.
getTileTransform ==
  IF arg.returnToCenter THEN "returnToCenter"
  ELSE IF pseudoRtcBias # "none" THEN "pseudoRtcBias"
  ELSE "identity"

\* The pseudoRtcBias argument of the running readNodeAndCreateGraphics call: the scene
\* loop passes it, the recursion into node.children passes none.
BiasArgument == IF Len(cstack) = 1 THEN pseudoRtcBias ELSE "none"

\* thisBias: defined exactly when the argument is.
thisBias == BiasArgument # "none"

BiasInit ==
  /\ nodes \in BiasDocuments
  /\ sceneNodes \in SeqsUpTo(NodeIds, 1)
  /\ meshes = [m \in {0} |-> <<[draco |-> -1]>>]
  /\ buffers = <<>>
  /\ images = <<>>
  /\ TravIdle
  /\ mode = "graphics"
  /\ xstack = <<>>
  /\ cstack = <<>>
  /\ rootIdx = 1
  /\ astatus = "running"
  /\ readStatus = "InvalidTileData"
  /\ outCount = 0
  /\ primReads = 0
  /\ lastCall = [node |-> -1, entry |-> 0, exit |-> 0]
  /\ assertOk = TRUE
  /\ rendered = FALSE
  /\ madeGraphic = FALSE
  /\ ReadIdle
  /\ arg \in [kind : {"tile"}, returnToCenter : BOOLEAN, pseudoRtcBias : BiasMagnitudes]
  /\ ret = [kind |-> "reads", biased |-> {}, unbiased |-> {}]

\* readMeshPrimitives(node, featureTable, thisTransform, thisBias): the node's
\* primitives are read with thisBias.
readNode_MeshGraphics_Bias ==
  /\ readNode_MeshGraphics
  /\ IF getGltfNodeMeshIds(Frame.node)[Frame.k] \in DOMAIN meshes
       THEN ret' = IF thisBias THEN [ret EXCEPT !.biased = @ \cup {Frame.node}]
                   ELSE [ret EXCEPT !.unbiased = @ \cup {Frame.node}]
       ELSE UNCHANGED ret
  /\ UNCHANGED arg

BiasNext ==
  \/ readGltf_Root /\ UNCHANGED <<unitVars, docVars, travVars, readVars>>
  \/ readGltf_Finish /\ UNCHANGED <<unitVars, docVars, travVars, readVars>>
  \/ readNode_Push /\ UNCHANGED <<unitVars, docVars, travVars, readVars>>
  \/ readNode_MeshGraphics_Bias /\ UNCHANGED <<docVars, travVars, readVars>>
  \/ readNode_MeshesDone /\ UNCHANGED <<unitVars, docVars, travVars, readVars>>
  \/ readNode_Child /\ UNCHANGED <<unitVars, docVars, travVars, readVars>>
  \/ readNode_Return /\ UNCHANGED <<unitVars, docVars, travVars, readVars>>

SpecBias == BiasInit /\ [][BiasNext]_vars

\* C29: when the tile transform adds the pseudo-origin bias back, the primitives of
\* every node the traversal reads, descendants included, were read with the bias.
C29_BiasReachesEveryNode ==
  getTileTransform = "pseudoRtcBias" => ret.unbiased = {}


\* ------------------------------------------------------------------------
\* Two reads of one source: GltfReaderProps.create, the reader's constructor, and the
\* resolution and the use of buffer 0

Readers == {1, 2}

\* The buffer objects there can be: that of the caller's parsed document (0), and
\* that of the document each reader's JSON.parse makes.
SourceObject == 0
NoBuffer == 0

SourceForms == {"glb", "json", "document"}

\* JsonUtils.asObject(json.buffers): the object it is given.
asObject(ref) == ref

\* GltfReaderProps.create: the buffers of the props' glTF. Bytes are parsed into a
\* document of the call's own; a parsed document is taken as it is.
PropsBuffers(r) ==
  IF arg.form = "document" THEN asObject(SourceObject) ELSE r

\* binaryData: only a binary container has a binary chunk.
binaryData == arg.form = "glb"

ShareInit ==
  /\ arg \in [kind : {"source"}, form : SourceForms, uri : BOOLEAN]
  /\ ret = [kind |-> "reads",
            glTF |-> [r \in Readers |-> -1],
            pc |-> [r \in Readers |-> "create"],
            resolvedBuffer |-> [o \in {SourceObject} \cup Readers |-> NoBuffer],
            observed |-> [r \in Readers |-> FALSE]]
  /\ ProgramIdle

\* Whether reader r finds on object o a resolvedBuffer that another read put there.
Foreign(r, o) == ret.resolvedBuffer[o] \notin {NoBuffer, r}

\* GltfReaderProps.create(source)
props_create(r) ==
  /\ ret.pc[r] = "create"
  /\ ret' = [ret EXCEPT !.glTF[r] = PropsBuffers(r), !.pc[r] = "construct"]
  /\ UNCHANGED arg

\* The constructor: this._glTF = args.props.glTF, and the binary chunk attached to
\* buffer 0 when that has no uri.
GltfReader_constructor(r) ==
  /\ ret.pc[r] = "construct"
  /\ ret' = [ret EXCEPT !.pc[r] = "resolve",
                        !.resolvedBuffer[ret.glTF[r]] =
                           IF binaryData /\ ~arg.uri THEN r ELSE @]
  /\ UNCHANGED arg

\* resolveBuffer, to its first await: a buffer that has a resolvedBuffer, or no uri,
\* is left as it is.
resolveBuffer_Start(r) ==
  /\ ret.pc[r] = "resolve"
  /\ IF ret.resolvedBuffer[ret.glTF[r]] # NoBuffer \/ ~arg.uri
       THEN ret' = [ret EXCEPT !.pc[r] = "read",
                               !.observed[r] = @ \/ Foreign(r, ret.glTF[r])]
       ELSE ret' = [ret EXCEPT !.pc[r] = "fetching"]
  /\ UNCHANGED arg

\* resolveBuffer, after the fetch: buffer.resolvedBuffer = new Uint8Array(data), or
\* nothing when the fetch failed.
resolveBuffer_Store(r) ==
  /\ ret.pc[r] = "fetching"
  /\ \E ok \in BOOLEAN :
       ret' = [ret EXCEPT !.pc[r] = "read",
                          !.resolvedBuffer[ret.glTF[r]] = IF ok THEN r ELSE @]
  /\ UNCHANGED arg

\* getBufferView: this._buffers[bv.buffer]?.resolvedBuffer is read.
getBufferView_Read(r) ==
  /\ ret.pc[r] = "read"
  /\ ret' = [ret EXCEPT !.pc[r] = "done",
                        !.observed[r] = @ \/ Foreign(r, ret.glTF[r])]
  /\ UNCHANGED arg

ShareNext ==
  \/ (\E r \in Readers : props_create(r)) /\ UNCHANGED programVars
  \/ (\E r \in Readers : GltfReader_constructor(r)) /\ UNCHANGED programVars
  \/ (\E r \in Readers : resolveBuffer_Start(r)) /\ UNCHANGED programVars
  \/ (\E r \in Readers : resolveBuffer_Store(r)) /\ UNCHANGED programVars
  \/ (\E r \in Readers : getBufferView_Read(r)) /\ UNCHANGED programVars

SpecShare == ShareInit /\ [][ShareNext]_vars

\* C21: of two reads of one source, interleaved in any way or one after the other,
\* neither finds on its document a buffer that the other resolved or attached.
C21_ReadsShareNoBuffer ==
  ret.kind = "reads" => \A r \in Readers : ~ret.observed[r]
====
